---- MODULE Spec2Model ----
(***************************************************************************)
(* Sandboxed job execution core of CodeCast: the Job Store                 *)
(* (CompileJobRepository), the Bull queue owned by ExecutionService, the   *)
(* queue workers (processCompileJob), admission (queueJob),                *)
(* cancellation (cancelJob) and the supervisor scan (handleTimeouts).      *)
(* Every `await` of the TypeScript source is a point where other requests, *)
(* workers and timers may run, so each asynchronous function is a process  *)
(* whose steps are the code between two awaits.  The collaboration side    *)
(* follows: RoomService with its repositories, the rate limiter of the     *)
(* room routes, and SyncService with the Yjs documents it keeps in memory. *)
(***************************************************************************)
EXTENDS Integers, Sequences, FiniteSets, TLC

VARIABLES
    now,            \* Date.now(), in milliseconds
    jobs,           \* Job Store: job id |-> row of compile_jobs
    queue,          \* Bull queue: Bull job id |-> queue entry
    waitList,       \* Bull's wait list: Bull job ids, head is served first
    bullCounter,    \* Bull's id counter (ids are "1", "2", ...)
    calls,          \* one queueJob invocation per client
    canc,           \* the cancelJob invocation in flight
    sup,            \* the handleTimeouts run in flight
    faults,         \* infrastructure errors (database, Redis) injected so far
    cancelledQueued, \* job ids for which cancelJob returned true having read Queued
    stat,           \* the getJobStatus invocation in flight and its last answer
    box,            \* one DockerService.executeCode run: host file, container, timers
    pool,           \* ContainerManager: jobs map, runningContainers, sandboxes, intervals
    proc,           \* JobProcessor: isRunning and its two intervals
    rooms,          \* database of the rooms: rooms, participants, room_snapshots
    roomCalls,      \* RoomService and presence invocations in flight, one per caller
    limiter,        \* rate-limiter.ts: the module's rateLimitStore and the requests decided
    sync            \* SyncService: yjsDocuments, pendingSnapshots and the calls in flight

(* the execution service and its stores *)
execVars == <<now, jobs, queue, waitList, bullCounter, calls, canc, sup, faults, cancelledQueued>>

(* the components a step of the execution service leaves alone *)
(* the collaboration side: rooms, their rate limiter and SyncService *)
collabVars == <<rooms, roomCalls, limiter, sync>>

otherVars == <<stat, box, pool, proc, collabVars>>

vars == <<execVars, otherVars>>

----------------------------------------------------------------------------
(* Bounds of the model *)

NumSubmissions == 1 \* queueJob invocations of a job-lifecycle run
NumRacers == 2      \* concurrent queueJob invocations of an admission run
NumUsers == 2       \* distinct userIds
MaxTicks == 2       \* clock advances
TickMs == 45000     \* milliseconds per clock advance
MaxFaults == 6      \* injected infrastructure errors
NumRuns == 3        \* ContainerManager.executeCode calls of a pool run
MaxConcurrentContainers == 2  \* config.maxConcurrentContainers of the modelled manager
PoolTickMs == 30000 \* milliseconds per clock advance of a pool run
MaxPoolTicks == 3   \* clock advances of a pool run
NumRoomCallers == 2 \* concurrent RoomService / presence invocations of a rooms run
NumSockets == 2     \* client sockets of a sync run

(* Program constants *)

MAX_JOBS_PER_USER_PER_MINUTE == 5
MAX_CONCURRENT_JOBS == 3
MAX_QUEUE_SIZE == 100
ATTEMPTS == 3
RATE_WINDOW_MS == 60000
FIND_BY_USER_LIMIT == 50
TIMEOUT_BUFFER_MS == 30000
maxExecutionTime == 30000
SWEEP_INTERVAL_MS == 60000       \* ContainerManager config.cleanupInterval
JOB_RECORD_MAX_AGE_MS == 3600000 \* performCleanup: one hour

NULL == 0 - 1     \* null / undefined of a numeric or date column

Clients == DOMAIN calls
Users == {"user-" \o ToString(n) : n \in 1..NumUsers}
UUID(n) == "uuid-" \o ToString(n)
JobIds == {UUID(n) : n \in Clients}
MissingJobId == "uuid-missing"
TimeoutInputs == {0, 60000}

QUEUED == "queued"
RUNNING == "running"
COMPLETED == "completed"
FAILED == "failed"
TIMEOUT == "timeout"
CANCELLED == "cancelled"
Terminal == {COMPLETED, FAILED, TIMEOUT, CANCELLED}

----------------------------------------------------------------------------
(* Job Store: CompileJobRepository.  Every write is one prisma update,     *)
(* keyed by id alone, with no condition on the row's current status.       *)

create(js, id, userId, timeout, t) ==
    js @@ (id :> [userId |-> userId, status |-> QUEUED, timeout |-> timeout,
                  createdAt |-> t, startedAt |-> NULL, completedAt |-> NULL])

findById(js, id) == IF id \in DOMAIN js THEN id ELSE MissingJobId

markStarted(js, id, t) ==
    [js EXCEPT ![id].status = RUNNING, ![id].startedAt = t]

markCompleted(js, id, t) ==
    [js EXCEPT ![id].status = COMPLETED, ![id].completedAt = t]

markFailed(js, id, t) ==
    [js EXCEPT ![id].status = FAILED, ![id].completedAt = t]

markTimeout(js, id, t) ==
    [js EXCEPT ![id].status = TIMEOUT, ![id].completedAt = t]

cancel(js, id, t) ==
    [js EXCEPT ![id].status = CANCELLED, ![id].completedAt = t]

findRunningJobs(js) == {id \in DOMAIN js : js[id].status = RUNNING}

(* findByUser(userId, 50) returns the 50 newest rows of the user; the      *)
(* filter keeps those with createdAt > now - 60 s.  The rows inside the    *)
(* window are the newest ones, so the count is the smaller of the two.     *)
recentJobsCount(js, userId, t) ==
    LET recent == {id \in DOMAIN js :
                      js[id].userId = userId /\ js[id].createdAt > t - RATE_WINDOW_MS}
    IN IF Cardinality(recent) > FIND_BY_USER_LIMIT
          THEN FIND_BY_USER_LIMIT ELSE Cardinality(recent)

----------------------------------------------------------------------------
(* Bull queue *)

BullId(n) == ToString(n)

getActive == {b \in DOMAIN queue : queue[b].state = "active"}

getQueueStats == [waiting |-> Len(waitList), active |-> Cardinality(getActive)]

(* queue.add(data, opts): opts carries no jobId, so Bull names the entry   *)
(* with its own counter; the job's uuid is only in entry.data.jobId.       *)
queueAdd(q, n, jobId) ==
    q @@ (BullId(n) :> [jobId |-> jobId, state |-> "waiting", attemptsMade |-> 0,
                        pc |-> "-", result |-> "-", finishedOn |-> NULL])

(* queue.getJob(id): the entry whose Bull id is `id`, or null *)
getJob(q, id) == IF id \in DOMAIN q THEN {id} ELSE {}

RemoveFromSeq(s, x) == SelectSeq(s, LAMBDA y : y # x)

----------------------------------------------------------------------------
(* Initial state: ExecutionService constructed, empty store, empty queue *)

IdleCall == [pc |-> "idle", userId |-> "-", timeout |-> 0, jobId |-> "-", ret |-> "none"]
IdleCancel == [pc |-> "idle", jobId |-> "-", seen |-> "-", ret |-> "none"]
IdleSup == [pc |-> "idle", todo |-> <<>>, cleanup |-> "idle", cleanupRet |-> "none"]

(* no getJobStatus call in flight, none answered yet *)
IdleStat == [pc |-> "idle", jobId |-> "-", seen |-> "-", ret |-> "none",
             status |-> "-", position |-> NULL]

(* no result yet *)
NoResult == [success |-> FALSE, exitCode |-> 0, timedOut |-> FALSE, error |-> FALSE]

(* no DockerService.executeCode call made yet *)
IdleBox == [pc |-> "idle", kind |-> "-", timeoutMs |-> 0, endsAt |-> 0, exit |-> 0,
            elapsed |-> 0, timer |-> "off", timedOut |-> FALSE, kill |-> FALSE,
            container |-> FALSE, tempFile |-> FALSE, code |-> NULL,
            result |-> NoResult]
PoolJobId(n) == "job-" \o ToString(n)
PoolJobIds == {PoolJobId(n) : n \in 1..NumRuns}

(* a ContainerManager just constructed: empty maps, the cleanup interval *)
(* armed, no shutdown                                                    *)
IdlePool == [jobs |-> [j \in PoolJobIds |->
                          [status |-> "absent", startTime |-> 0, endedAt |-> NULL]],
             runningContainers |-> {},
             sandbox |-> [j \in PoolJobIds |-> "none"],
             called |-> 0, lastRet |-> "none",
             cleanupInterval |-> TRUE, nextSweep |-> SWEEP_INTERVAL_MS,
             sweep |-> [pc |-> "idle", list |-> {}],
             shut |-> [pc |-> "none", list |-> {}]]
(* JobProcessor after construction: not running, no interval armed.  The *)
(* intervals hold the instant of their next firing while armed; lastScan  *)
(* and lastCleanup the instant of the latest run (or of start); the       *)
(* outcome and logged fields the latest run of each callback.             *)
IdleProc ==
    [isRunning |-> FALSE, timeoutInterval |-> NULL, cleanupInterval |-> NULL,
     lastScan |-> NULL, lastCleanup |-> NULL,
     scanOutcome |-> "none", scanLogged |-> FALSE, scanErrAt |-> NULL,
     cleanupOutcome |-> "none", cleanupLogged |-> FALSE, cleanupErrAt |-> NULL,
     stopping |-> FALSE]

(* a Bytes? column or an optional Uint8Array: absent, or an encoded set of  *)
(* Yjs items                                                               *)
NoYjs == [present |-> FALSE, items |-> {}]
Bytes(items) == [present |-> TRUE, items |-> items]

(* the database of the rooms before any room is created *)
IdleRooms == [rows |-> <<>>, participants |-> <<>>, snapshots |-> <<>>, started |-> 0]

(* no RoomService call in flight *)
IdleRoomCall == [op |-> "idle", pc |-> "idle", roomId |-> "-", userId |-> "-",
                 key |-> 0, attempts |-> 0, existing |-> 0, content |-> <<>>,
                 yjsState |-> NoYjs, ret |-> "none"]

IdleRoomCalls == [c \in 1..NumRoomCallers |-> IdleRoomCall]

(* rateLimitStore = new Map(), nothing decided yet *)
IdleLimiter == [store |-> <<>>, log |-> <<>>]

MaxEdits == 2          \* insertions typed by all clients in a sync run
DEFAULT_SNAPSHOT_THRESHOLD == 100   \* defaultConfig.snapshotThreshold

(* new Y.Doc() with clientID c: no item integrated, none pending *)
newDoc(c) == [client |-> c, items |-> <<>>, pending |-> {}]

(* a socket with no event being handled *)
IdleSocket == [pc |-> "idle", event |-> "-", doc |-> 0, update |-> NoYjs,
               room |-> [yjsState |-> NoYjs, codeSnapshot |-> <<>>],
               validation |-> "none", throws |-> FALSE,
               captured |-> [content |-> <<>>, yjsState |-> NoYjs],
               reply |-> [event |-> "-", code |-> "-", state |-> NoYjs]]

(* new SyncService(): empty maps, no Y.Doc created, no timer set; every    *)
(* client has an empty document of its own; `applied` lists the updates    *)
(* Y.applyUpdate has taken and `emitted` the 'yjs-update' broadcasts;      *)
(* `config` is the configuration initializeYjsDocument is called with,     *)
(* `budget` the number of insertions the clients type in the run and       *)
(* `snapshotWrites` the createSnapshot calls of the update observers that  *)
(* have not returned                                                       *)
IdleSync == [docs |-> <<>>, yjsDocuments |-> <<>>, snapshotTimers |-> {},
             pendingSnapshots |-> <<>>, timeouts |-> <<>>, typed |-> 0,
             applied |-> <<>>, emitted |-> <<>>,
             config |-> [snapshotThreshold |-> DEFAULT_SNAPSHOT_THRESHOLD],
             budget |-> MaxEdits, snapshotWrites |-> <<>>,
             sockets |-> [s \in 1..NumSockets |-> IdleSocket],
             replicas |-> [s \in 1..NumSockets |-> newDoc(s)]]

(* the other components at rest *)
OthersIdle ==
    /\ stat = IdleStat
    /\ box = IdleBox
    /\ pool = IdlePool
    /\ proc = IdleProc
    /\ rooms = IdleRooms
    /\ roomCalls = IdleRoomCalls
    /\ limiter = IdleLimiter
    /\ sync = IdleSync

Init ==
    /\ now = 0
    /\ jobs = <<>>
    /\ queue = <<>>
    /\ waitList = <<>>
    /\ bullCounter = 0
    /\ calls = [c \in 1..NumSubmissions |-> IdleCall]
    /\ canc = IdleCancel
    /\ sup = IdleSup
    /\ faults = 0
    /\ cancelledQueued = {}
    /\ OthersIdle

----------------------------------------------------------------------------
(* ExecutionService.queueJob, one step per await *)

(* checkRateLimits, first half: getQueueStats, then the queue-size check *)
QueueJobStats(c, userId, timeout) ==
    /\ calls[c].pc = "idle"
    /\ \A d \in 1..(c - 1) : calls[d].pc # "idle"
    /\ LET stats == getQueueStats
       IN IF stats.waiting + stats.active >= MAX_QUEUE_SIZE
             THEN calls' = [calls EXCEPT ![c] = [IdleCall EXCEPT
                                !.pc = "done", !.userId = userId, !.ret = "QueueFull"]]
             ELSE calls' = [calls EXCEPT ![c] = [IdleCall EXCEPT
                                !.pc = "rate", !.userId = userId, !.timeout = timeout]]
    /\ UNCHANGED <<otherVars, now, jobs, queue, waitList, bullCounter, canc, sup, faults, cancelledQueued>>

(* the rate check with `>` where the source has `>=` *)
QueueJobRate_StrictlyMore(c) ==
    /\ calls[c].pc = "rate"
    /\ IF recentJobsCount(jobs, calls[c].userId, now) > MAX_JOBS_PER_USER_PER_MINUTE
          THEN calls' = [calls EXCEPT ![c] = [IdleCall EXCEPT
                             !.pc = "done", !.userId = calls[c].userId,
                             !.ret = "RateLimited"]]
          ELSE calls' = [calls EXCEPT ![c].pc = "create"]
    /\ UNCHANGED <<otherVars, now, jobs, queue, waitList, bullCounter, canc, sup, faults, cancelledQueued>>

(* checkRateLimits, second half: findByUser, filter, count *)
QueueJobRate(c) ==
    /\ calls[c].pc = "rate"
    /\ IF recentJobsCount(jobs, calls[c].userId, now) >= MAX_JOBS_PER_USER_PER_MINUTE
          THEN calls' = [calls EXCEPT ![c] = [IdleCall EXCEPT
                             !.pc = "done", !.userId = calls[c].userId,
                             !.ret = "RateLimited"]]
          ELSE calls' = [calls EXCEPT ![c].pc = "create"]
    /\ UNCHANGED <<otherVars, now, jobs, queue, waitList, bullCounter, canc, sup, faults, cancelledQueued>>

(* options.timeout || config.compilation.maxExecutionTime *)
effectiveTimeout(timeout) == IF timeout # 0 THEN timeout ELSE maxExecutionTime

(* randomUUID(): an id no row carries yet *)
randomUUID == UUID(CHOOSE n \in Clients :
                      /\ UUID(n) \notin DOMAIN jobs
                      /\ \A m \in 1..(n - 1) : UUID(m) \in DOMAIN jobs)

(* CompileJobRepository.create: the row is written in state Queued *)
QueueJobCreate(c) ==
    /\ calls[c].pc = "create"
    /\ LET id == randomUUID
       IN /\ jobs' = create(jobs, id, calls[c].userId,
                            effectiveTimeout(calls[c].timeout), now)
          /\ calls' = [calls EXCEPT ![c].pc = "add", ![c].jobId = id]
    /\ UNCHANGED <<otherVars, now, queue, waitList, bullCounter, canc, sup, faults, cancelledQueued>>

(* compileQueue.add succeeds: the entry joins the wait list, jobId is returned *)
QueueJobAdd(c) ==
    /\ calls[c].pc = "add"
    /\ bullCounter' = bullCounter + 1
    /\ queue' = queueAdd(queue, bullCounter', calls[c].jobId)
    /\ waitList' = Append(waitList, BullId(bullCounter'))
    /\ calls' = [calls EXCEPT ![c] = [IdleCall EXCEPT
                       !.pc = "done", !.jobId = calls[c].jobId, !.ret = "ok"]]
    /\ UNCHANGED <<otherVars, now, jobs, canc, sup, faults, cancelledQueued>>

(* compileQueue.add rejects (Redis error): queueJob throws, nothing undoes *)
(* the row written by create                                               *)
QueueJobAddFails(c) ==
    /\ calls[c].pc = "add"
    /\ faults < MaxFaults
    /\ faults' = faults + 1
    /\ calls' = [calls EXCEPT ![c] = [IdleCall EXCEPT
                       !.pc = "done", !.jobId = calls[c].jobId, !.ret = "EnqueueError"]]
    /\ UNCHANGED <<otherVars, now, jobs, queue, waitList, bullCounter, canc, sup, cancelledQueued>>

----------------------------------------------------------------------------
(* Queue workers: compileQueue.process(MAX_CONCURRENT_JOBS, processCompileJob) *)

ExecutionResults == {"success", "failed", "timedOut"}

(* Bull hands the head of the wait list to a free worker slot *)
WorkerTake ==
    /\ waitList # <<>>
    /\ Cardinality(getActive) < MAX_CONCURRENT_JOBS
    /\ LET b == Head(waitList)
       IN queue' = [queue EXCEPT ![b].state = "active", ![b].pc = "start"]
    /\ waitList' = Tail(waitList)
    /\ UNCHANGED <<otherVars, now, jobs, bullCounter, calls, canc, sup, faults, cancelledQueued>>

(* processCompileJob: await CompileJobRepository.markStarted(jobId) *)
ProcessMarkStarted(b) ==
    /\ b \in DOMAIN queue
    /\ queue[b].state = "active" /\ queue[b].pc = "start"
    /\ jobs' = markStarted(jobs, queue[b].jobId, now)
    /\ queue' = [queue EXCEPT ![b].pc = "exec"]
    /\ UNCHANGED <<otherVars, now, waitList, bullCounter, calls, canc, sup, faults, cancelledQueued>>

(* processCompileJob: await DockerService.executeCode(code, containerConfig); *)
(* executeCode catches its own errors and always resolves with a result       *)
ProcessExecute(b, result) ==
    /\ b \in DOMAIN queue
    /\ queue[b].state = "active" /\ queue[b].pc = "exec"
    /\ queue' = [queue EXCEPT ![b].pc = "write", ![b].result = result]
    /\ UNCHANGED <<otherVars, now, jobs, waitList, bullCounter, calls, canc, sup, faults, cancelledQueued>>

(* the write chosen by the result: markTimeout, markCompleted or markFailed *)
terminalWrite(js, id, result, t) ==
    IF result = "timedOut" THEN markTimeout(js, id, t)
    ELSE IF result = "success" THEN markCompleted(js, id, t)
    ELSE markFailed(js, id, t)

(* processCompileJob: the terminal write, then `return result`; Bull moves *)
(* the entry to its completed set                                          *)
ProcessTerminalWrite(b) ==
    /\ b \in DOMAIN queue
    /\ queue[b].state = "active" /\ queue[b].pc = "write"
    /\ jobs' = terminalWrite(jobs, queue[b].jobId, queue[b].result, now)
    /\ queue' = [queue EXCEPT ![b].state = "completed", ![b].pc = "-",
                              ![b].finishedOn = now]
    /\ UNCHANGED <<otherVars, now, waitList, bullCounter, calls, canc, sup, faults, cancelledQueued>>

(* a repository call inside the try block rejects (database error): *)
(* control goes to the catch block                                  *)
ProcessThrows(b) ==
    /\ b \in DOMAIN queue
    /\ queue[b].state = "active" /\ queue[b].pc \in {"start", "write"}
    /\ faults < MaxFaults
    /\ faults' = faults + 1
    /\ queue' = [queue EXCEPT ![b].pc = "catch"]
    /\ UNCHANGED <<otherVars, now, jobs, waitList, bullCounter, calls, canc, sup, cancelledQueued>>

(* Bull's handling of a rejected processor at time t: attemptsMade is    *)
(* incremented; the entry is delayed for a retry while attempts remain, *)
(* else failed and stamped with finishedOn                              *)
moveToFailed(q, b, t) ==
    [q EXCEPT ![b].attemptsMade = @ + 1,
              ![b].state = IF q[b].attemptsMade + 1 < ATTEMPTS THEN "delayed" ELSE "failed",
              ![b].finishedOn = IF q[b].attemptsMade + 1 < ATTEMPTS THEN NULL ELSE t,
              ![b].pc = "-", ![b].result = "-"]

(* processCompileJob catch block: markFailed(jobId, message), then rethrow *)
ProcessCatch(b) ==
    /\ b \in DOMAIN queue
    /\ queue[b].state = "active" /\ queue[b].pc = "catch"
    /\ jobs' = markFailed(jobs, queue[b].jobId, now)
    /\ queue' = moveToFailed(queue, b, now)
    /\ UNCHANGED <<otherVars, now, waitList, bullCounter, calls, canc, sup, faults, cancelledQueued>>

(* processCompileJob catch block when its own markFailed rejects (database *)
(* error): the row is not written, the rejection leaves the processor and  *)
(* Bull handles it as the failure of the attempt                           *)
ProcessCatchFails(b) ==
    /\ b \in DOMAIN queue
    /\ queue[b].state = "active" /\ queue[b].pc = "catch"
    /\ faults < MaxFaults
    /\ faults' = faults + 1
    /\ queue' = moveToFailed(queue, b, now)
    /\ UNCHANGED <<otherVars, now, jobs, waitList, bullCounter, calls, canc, sup, cancelledQueued>>

(* the backoff delay has elapsed: Bull puts the entry back on the wait list *)
RetryPromote(b) ==
    /\ b \in DOMAIN queue
    /\ queue[b].state = "delayed"
    /\ queue' = [queue EXCEPT ![b].state = "waiting"]
    /\ waitList' = Append(waitList, b)
    /\ UNCHANGED <<otherVars, now, jobs, bullCounter, calls, canc, sup, faults, cancelledQueued>>

----------------------------------------------------------------------------
(* ExecutionService.cancelJob, one step per await *)

(* queueJob.remove() *)
queueRemove(q, b) == [x \in DOMAIN q \ {b} |-> q[x]]

(* cancelJob without the ownership check *)
CancelFind_NoOwnerCheck(jobId, userId) ==
    /\ canc.pc = "idle"
    /\ LET dbJob == findById(jobs, jobId)
       IN IF dbJob = MissingJobId
             THEN canc' = [IdleCancel EXCEPT !.ret = "false"]
          ELSE IF jobs[dbJob].status \notin {QUEUED, RUNNING}
             THEN canc' = [IdleCancel EXCEPT !.ret = "false"]
          ELSE canc' = [pc |-> IF jobs[dbJob].status = QUEUED THEN "remove" ELSE "write",
                        jobId |-> jobId,
                        seen |-> jobs[dbJob].status, ret |-> "none"]
    /\ UNCHANGED <<otherVars, now, jobs, queue, waitList, bullCounter, calls, sup, faults, cancelledQueued>>

(* findById, the ownership check and the state check *)
CancelFind(jobId, userId) ==
    /\ canc.pc = "idle"
    /\ LET dbJob == findById(jobs, jobId)
       IN IF dbJob = MissingJobId \/ jobs[dbJob].userId # userId
             THEN canc' = [IdleCancel EXCEPT !.ret = "false"]
          ELSE IF jobs[dbJob].status \notin {QUEUED, RUNNING}
             THEN canc' = [IdleCancel EXCEPT !.ret = "false"]
          ELSE canc' = [pc |-> IF jobs[dbJob].status = QUEUED THEN "remove" ELSE "write",
                        jobId |-> jobId,
                        seen |-> jobs[dbJob].status, ret |-> "none"]
    /\ UNCHANGED <<otherVars, now, jobs, queue, waitList, bullCounter, calls, sup, faults, cancelledQueued>>

(* if the row read was Queued: compileQueue.getJob(jobId), remove when found *)
CancelRemove ==
    /\ canc.pc = "remove"
    /\ LET found == getJob(queue, canc.jobId)
       IN /\ queue' = IF found = {} THEN queue
                      ELSE queueRemove(queue, CHOOSE b \in found : TRUE)
          /\ waitList' = IF found = {} THEN waitList
                         ELSE RemoveFromSeq(waitList, CHOOSE b \in found : TRUE)
    /\ canc' = [canc EXCEPT !.pc = "write"]
    /\ UNCHANGED <<otherVars, now, jobs, bullCounter, calls, sup, faults, cancelledQueued>>

(* CompileJobRepository.cancel(jobId); return true *)
CancelWrite ==
    /\ canc.pc = "write"
    /\ jobs' = cancel(jobs, canc.jobId, now)
    /\ canc' = [IdleCancel EXCEPT !.ret = "true"]
    /\ cancelledQueued' = IF canc.seen = QUEUED
                             THEN cancelledQueued \cup {canc.jobId}
                             ELSE cancelledQueued
    /\ UNCHANGED <<otherVars, now, queue, waitList, bullCounter, calls, sup, faults>>

----------------------------------------------------------------------------
(* ExecutionService.handleTimeouts, run by JobProcessor's 30 s interval *)

(* the rows of findRunningJobs() the loop acts on: startedAt set and *)
(* now - startedAt > options.timeout + 30000                         *)
overdue(js, t) ==
    {id \in findRunningJobs(js) :
        /\ js[id].startedAt # NULL
        /\ t - js[id].startedAt > js[id].timeout + TIMEOUT_BUFFER_MS}

(* the sequences over S in ascending startedAt (orderBy: { startedAt: 'asc' }) *)
orderByStartedAt(js, S) ==
    {s \in [1..Cardinality(S) -> S] :
        /\ \A i, k \in 1..Cardinality(S) : i # k => s[i] # s[k]
        /\ \A i, k \in 1..Cardinality(S) :
              i < k => js[s[i]].startedAt <= js[s[k]].startedAt}

(* findRunningJobs and Date.now(): the loop works on this snapshot *)
TimeoutsScan ==
    /\ sup.pc = "idle"
    /\ \E s \in orderByStartedAt(jobs, overdue(jobs, now)) :
          sup' = [sup EXCEPT !.pc = IF s = <<>> THEN "idle" ELSE "mark", !.todo = s]
    /\ UNCHANGED <<otherVars, now, jobs, queue, waitList, bullCounter, calls, canc, faults, cancelledQueued>>

(* await CompileJobRepository.markTimeout(job.id) *)
TimeoutsMark ==
    /\ sup.pc = "mark"
    /\ jobs' = markTimeout(jobs, Head(sup.todo), now)
    /\ sup' = [sup EXCEPT !.pc = "remove"]
    /\ UNCHANGED <<otherVars, now, queue, waitList, bullCounter, calls, canc, faults, cancelledQueued>>

(* compileQueue.getJob(job.id), remove when found; then the next row *)
TimeoutsRemove ==
    /\ sup.pc = "remove"
    /\ LET found == getJob(queue, Head(sup.todo))
       IN /\ queue' = IF found = {} THEN queue
                      ELSE queueRemove(queue, CHOOSE b \in found : TRUE)
          /\ waitList' = IF found = {} THEN waitList
                         ELSE RemoveFromSeq(waitList, CHOOSE b \in found : TRUE)
    /\ sup' = [sup EXCEPT !.pc = IF Tail(sup.todo) = <<>> THEN "idle" ELSE "mark",
                          !.todo = Tail(sup.todo)]
    /\ UNCHANGED <<otherVars, now, jobs, bullCounter, calls, canc, faults, cancelledQueued>>

----------------------------------------------------------------------------
(* ExecutionService.getJobStatus, one step per await *)

(* every variable but stat *)
notStat == <<execVars, box, pool, proc, collabVars>>

(* Array.prototype.findIndex(job => job.id === x): 0-based, -1 when absent *)
findIndex(s, x) ==
    IF \E i \in 1..Len(s) : s[i] = x
       THEN (CHOOSE i \in 1..Len(s) : s[i] = x /\ \A k \in 1..(i - 1) : s[k] # x) - 1
       ELSE 0 - 1

(* the position computed after getWaiting() *)
positionIn(waiting, jobId) == findIndex(waiting, jobId) + 1

(* findById: unknown id throws 'Job not found'; a terminal row is answered *)
(* from the database                                                       *)
StatusFind(jobId) ==
    /\ stat.pc = "idle"
    /\ LET dbJob == findById(jobs, jobId)
       IN IF dbJob = MissingJobId
             THEN stat' = [IdleStat EXCEPT !.jobId = jobId, !.ret = "NotFound"]
          ELSE IF jobs[dbJob].status \in Terminal
             THEN stat' = [IdleStat EXCEPT !.jobId = jobId, !.ret = "result",
                               !.status = jobs[dbJob].status]
          ELSE stat' = [IdleStat EXCEPT !.pc = "queue", !.jobId = jobId,
                            !.seen = jobs[dbJob].status]
    /\ UNCHANGED notStat

(* compileQueue.getJob(jobId); when it finds an entry and the row read was  *)
(* Queued, getWaiting() and the position among the waiting entries' ids.    *)
(* getJob is asked for the job's uuid and the entries are named by Bull's   *)
(* counter, so the lookup finds nothing and position stays undefined.       *)
StatusQueue ==
    /\ stat.pc = "queue"
    /\ LET queueJob == getJob(queue, stat.jobId)
       IN stat' = [IdleStat EXCEPT !.jobId = stat.jobId, !.ret = "status",
                       !.status = stat.seen,
                       !.position = IF queueJob # {} /\ stat.seen = QUEUED
                                       THEN positionIn(waitList, stat.jobId)
                                       ELSE NULL]
    /\ UNCHANGED notStat

StatusRetrieval ==
    \/ \E j \in JobIds \cup {MissingJobId} : StatusFind(j)
    \/ StatusQueue

----------------------------------------------------------------------------
(* The clock *)

(* the Running rows no worker will write again: their queue entry is gone *)
(* or finished, so only the timeout scan can end them                    *)
strandedRunning(js, q, t) ==
    {id \in findRunningJobs(js) \ overdue(js, t) :
        \A b \in DOMAIN q : q[b].jobId = id => q[b].state \in {"completed", "failed"}}

(* time passes; past the bound of the model it goes on only until the *)
(* stranded rows are overdue                                          *)
Tick ==
    /\ now < MaxTicks * TickMs \/ strandedRunning(jobs, queue, now) # {}
    /\ now' = now + TickMs
    /\ UNCHANGED <<otherVars, jobs, queue, waitList, bullCounter, calls, canc, sup, faults, cancelledQueued>>

----------------------------------------------------------------------------

(* the job ids queueJob has returned to its caller *)
accepted == {calls[c].jobId : c \in {d \in Clients : calls[d].ret = "ok"}}

Admission ==
    \/ \E c \in Clients, u \in Users, t \in TimeoutInputs : QueueJobStats(c, u, t)
    \/ \E c \in Clients : QueueJobRate(c)
    \/ \E c \in Clients : QueueJobCreate(c)
    \/ \E c \in Clients : QueueJobAdd(c)
    \/ \E c \in Clients : QueueJobAddFails(c)

Workers ==
    \/ WorkerTake
    \/ \E b \in DOMAIN queue : ProcessMarkStarted(b)
    \/ \E b \in DOMAIN queue, r \in ExecutionResults : ProcessExecute(b, r)
    \/ \E b \in DOMAIN queue : ProcessTerminalWrite(b)
    \/ \E b \in DOMAIN queue : ProcessThrows(b)
    \/ \E b \in DOMAIN queue : ProcessCatch(b)
    \/ \E b \in DOMAIN queue : ProcessCatchFails(b)
    \/ \E b \in DOMAIN queue : RetryPromote(b)

Cancellation ==
    \/ \E j \in JobIds \cup {MissingJobId}, u \in Users : CancelFind(j, u)
    \/ CancelRemove
    \/ CancelWrite

Supervisor ==
    \/ TimeoutsScan
    \/ TimeoutsMark
    \/ TimeoutsRemove

Next == Admission \/ Workers \/ Cancellation \/ Supervisor \/ Tick

Spec == Init /\ [][Next]_vars

----------------------------------------------------------------------------
(* Admission under load: the service has been running, one user has      *)
(* recent jobs behind them, other users' jobs are waiting in the queue,  *)
(* and NumRacers requests call queueJob at once.                         *)

HistoryCounts == {0, MAX_JOBS_PER_USER_PER_MINUTE - 1, MAX_JOBS_PER_USER_PER_MINUTE}
BacklogCounts == {0, MAX_QUEUE_SIZE - 1, MAX_QUEUE_SIZE}

HistoryId(k) == "uuid-h" \o ToString(k)
BacklogId(k) == "uuid-q" \o ToString(k)
BacklogUser(k) == "peer-" \o ToString((k - 1) \div MAX_JOBS_PER_USER_PER_MINUTE + 1)

(* h jobs of user-1, submitted and completed at time 0 *)
historyRows(h) ==
    [id \in {HistoryId(k) : k \in 1..h} |->
        [userId |-> "user-1", status |-> COMPLETED, timeout |-> maxExecutionTime,
         createdAt |-> 0, startedAt |-> 0, completedAt |-> 0]]

(* q jobs of other users, submitted at time 0 and still Queued *)
backlogRows(q) ==
    [id \in {BacklogId(k) : k \in 1..q} |->
        [userId |-> CHOOSE u \in {BacklogUser(k) : k \in 1..q} :
                       \E k \in 1..q : id = BacklogId(k) /\ u = BacklogUser(k),
         status |-> QUEUED, timeout |-> maxExecutionTime,
         createdAt |-> 0, startedAt |-> NULL, completedAt |-> NULL]]

(* their queue entries: Bull ids 1..h completed, h+1..h+q waiting *)
loadedQueue(h, q) ==
    [b \in {BullId(n) : n \in 1..(h + q)} |->
        LET n == CHOOSE m \in 1..(h + q) : BullId(m) = b
        IN [jobId |-> IF n <= h THEN HistoryId(n) ELSE BacklogId(n - h),
            state |-> IF n <= h THEN "completed" ELSE "waiting",
            attemptsMade |-> 0, pc |-> "-", result |-> "-",
            finishedOn |-> IF n <= h THEN 0 ELSE NULL]]

InitAdmit ==
    \E h \in HistoryCounts, q \in BacklogCounts :
        /\ now = 0
        /\ jobs = historyRows(h) @@ backlogRows(q)
        /\ queue = loadedQueue(h, q)
        /\ waitList = [i \in 1..q |-> BullId(h + i)]
        /\ bullCounter = h + q
        /\ calls = [c \in 1..NumRacers |-> IdleCall]
        /\ canc = IdleCancel
        /\ sup = IdleSup
        /\ faults = 0
        /\ cancelledQueued = {}
        /\ OthersIdle

NextAdmit == Admission \/ Tick

SpecAdmit == InitAdmit /\ [][NextAdmit]_vars

(* The workers and the supervisor keep taking steps: Bull runs a processor *)
(* whenever a slot is free and the wait list is not empty, the Node event  *)
(* loop resumes every settled await, and setInterval keeps firing.         *)
SpecLive == Init /\ [][Next]_vars /\ WF_vars(Workers) /\ WF_vars(Supervisor) /\ WF_vars(Tick)

----------------------------------------------------------------------------
(* DockerService.executeCode: one sandbox run.  box.elapsed is the time   *)
(* since `docker run` was spawned; it jumps from one timer or exit to the *)
(* next.                                                                  *)

DEFAULT_TIMEOUT_MS == 10000   \* DEFAULT_CONFIG.timeoutMs
INNER_TIMEOUT_MS == 5000      \* `timeout 5s ./main` in the sandbox command
INNER_TIMEOUT_EXIT == 124     \* exit status of `timeout` when it had to kill
KILLED_EXIT == 128 + 9        \* exit status of `docker run` after `docker kill`

(* every variable but box *)
notBox == <<execVars, stat, pool, proc, collabVars>>

(* submitted programs: exits 0, exits 3, does not compile, never terminates *)
ProgramKinds == {"exit0", "exit3", "compileError", "loop"}
CompileTimes == {1000, 2000}     \* how long g++ takes
RunTime == 1000                  \* how long a terminating program runs
WallTimeouts == {0, 1000, 3000, 10000, 30000, 60000}   \* config.timeoutMs, 0 = not given

(* the sandbox command `g++ ... && timeout 5s ./main`: when it ends and  *)
(* with which exit status, if nothing kills the container first          *)
sandboxCommand(kind, compileMs) ==
    IF kind = "compileError" THEN [endsAt |-> compileMs, exit |-> 1]
    ELSE IF kind = "loop"
        THEN [endsAt |-> compileMs + INNER_TIMEOUT_MS, exit |-> INNER_TIMEOUT_EXIT]
    ELSE [endsAt |-> compileMs + RunTime, exit |-> IF kind = "exit0" THEN 0 ELSE 3]

(* the 'close' handler of runContainer: success, `code || -1`, timedOut *)
closeResult(code, timedOut) ==
    [success |-> code = 0 /\ ~timedOut,
     exitCode |-> IF code = 0 \/ code = NULL THEN 0 - 1 ELSE code,
     timedOut |-> timedOut, error |-> FALSE]

(* executeCode(code, config): finalConfig = { ...DEFAULT_CONFIG, ...config } *)
ExecuteCode(kind, compileMs, timeoutMs) ==
    /\ box.pc = "idle"
    /\ box' = [IdleBox EXCEPT
                  !.pc = "createTempFile", !.kind = kind,
                  !.timeoutMs = IF timeoutMs # 0 THEN timeoutMs ELSE DEFAULT_TIMEOUT_MS,
                  !.endsAt = sandboxCommand(kind, compileMs).endsAt,
                  !.exit = sandboxCommand(kind, compileMs).exit]
    /\ UNCHANGED notBox

(* createTempFile resolves: tmp/code-<uuid>.cpp is written *)
CreateTempFile ==
    /\ box.pc = "createTempFile"
    /\ box' = [box EXCEPT !.pc = "spawn", !.tempFile = TRUE]
    /\ UNCHANGED notBox

(* createTempFile rejects: mkdir failed (no file), or writeFile failed     *)
(* after opening the file (the file is left behind); control goes to catch *)
CreateTempFileFails(fileLeft) ==
    /\ box.pc = "createTempFile"
    /\ box' = [box EXCEPT !.pc = "catch", !.tempFile = fileLeft]
    /\ UNCHANGED notBox

(* runContainer: spawn('docker', ['run', '--rm', ...]) and the watchdog    *)
(* setTimeout(..., config.timeoutMs)                                       *)
RunContainer ==
    /\ box.pc = "spawn"
    /\ box' = [box EXCEPT !.pc = "running", !.container = TRUE, !.timer = "armed",
                          !.elapsed = 0]
    /\ UNCHANGED notBox

(* runContainer: the child emits 'error' (docker cannot be started):       *)
(* clearTimeout and resolve with exitCode -1                               *)
RunContainerError ==
    /\ box.pc = "spawn"
    /\ box' = [box EXCEPT !.pc = "cleanup", !.timer = "cleared",
                          !.result = [success |-> FALSE, exitCode |-> 0 - 1,
                                      timedOut |-> FALSE, error |-> FALSE]]
    /\ UNCHANGED notBox

(* the instants at which something is due while the container runs *)
dueTimes == (IF box.timer = "armed" THEN {box.timeoutMs} ELSE {})
            \cup (IF box.container THEN {box.endsAt} ELSE {})

(* time passes up to the next due instant *)
Advance ==
    /\ box.pc = "running"
    /\ ~box.kill
    /\ dueTimes # {}
    /\ \A d \in dueTimes : box.elapsed < d
    /\ box' = [box EXCEPT !.elapsed = CHOOSE d \in dueTimes : \A e \in dueTimes : d <= e]
    /\ UNCHANGED notBox

(* the watchdog fires: timedOut = true; forceKillContainer(containerId) *)
WatchdogFires ==
    /\ box.pc = "running"
    /\ box.timer = "armed" /\ box.elapsed = box.timeoutMs
    /\ box' = [box EXCEPT !.timer = "fired", !.timedOut = TRUE, !.kill = TRUE]
    /\ UNCHANGED notBox

(* the sandbox command ends by itself: --rm removes the container, 'close' *)
(* is emitted with the command's exit status, clearTimeout, resolve        *)
ContainerExits ==
    /\ box.pc = "running"
    /\ box.container /\ box.elapsed = box.endsAt
    /\ box' = [box EXCEPT !.pc = "cleanup", !.container = FALSE, !.code = box.exit,
                          !.timer = IF box.timer = "armed" THEN "cleared" ELSE box.timer,
                          !.result = closeResult(box.exit, box.timedOut)]
    /\ UNCHANGED notBox

(* `docker kill` takes effect: the container dies, 'close' is emitted with *)
(* the status of a killed container, resolve                               *)
KillLands ==
    /\ box.pc = "running"
    /\ box.kill /\ box.container
    /\ box' = [box EXCEPT !.pc = "cleanup", !.container = FALSE, !.kill = FALSE,
                          !.code = KILLED_EXIT,
                          !.result = closeResult(KILLED_EXIT, box.timedOut)]
    /\ UNCHANGED notBox

(* cleanup(containerId, tempFile): docker rm -f and fs.unlink; then the  *)
(* result is returned                                                    *)
Cleanup ==
    /\ box.pc = "cleanup"
    /\ box' = [box EXCEPT !.pc = "done", !.container = FALSE, !.tempFile = FALSE,
                          !.kill = FALSE]
    /\ UNCHANGED notBox

(* catch: cleanup(containerId) without the file; the error result is returned *)
CleanupOnError ==
    /\ box.pc = "catch"
    /\ box' = [box EXCEPT !.pc = "done", !.container = FALSE,
                          !.result = [success |-> FALSE, exitCode |-> 0 - 1,
                                      timedOut |-> FALSE, error |-> TRUE]]
    /\ UNCHANGED notBox

(* what processCompileJob does with a result: which branch it takes *)
resultBranch(r) ==
    IF r.timedOut THEN "timedOut" ELSE IF r.success THEN "success" ELSE "failed"

NextSandbox ==
    \/ \E k \in ProgramKinds, c \in CompileTimes, t \in WallTimeouts : ExecuteCode(k, c, t)
    \/ CreateTempFile
    \/ \E fileLeft \in BOOLEAN : CreateTempFileFails(fileLeft)
    \/ RunContainer
    \/ RunContainerError
    \/ Advance
    \/ WatchdogFires
    \/ ContainerExits
    \/ KillLands
    \/ Cleanup
    \/ CleanupOnError

SpecSandbox == Init /\ [][NextSandbox]_vars

----------------------------------------------------------------------------
(* ContainerManager: the jobs map, runningContainers, the sandboxes its    *)
(* runs have started, the cleanup interval and shutdown.  pool.sandbox[j]  *)
(* is the sandbox of the DockerService.executeCode call made for job j:    *)
(* "alive" while its container runs, "killed" once docker rm -f has        *)
(* removed it and the call has not resumed yet.                            *)

(* every variable but pool and the clock *)
notPool == <<jobs, queue, waitList, bullCounter, calls, canc, sup, faults,
             cancelledQueued, stat, box, proc, collabVars>>

PoolTerminal == {"completed", "failed", "timeout"}

(* the sandboxes actually executing *)
liveSandboxes == {j \in PoolJobIds : pool.sandbox[j] = "alive"}

(* executeCode(jobId, code, config) up to its first await: the capacity   *)
(* check, jobs.set, runningContainers.add, DockerService.executeCode      *)
PoolExecuteCode ==
    /\ pool.called < NumRuns
    /\ LET j == PoolJobId(pool.called + 1)
       IN IF Cardinality(pool.runningContainers) >= MaxConcurrentContainers
             THEN pool' = [pool EXCEPT !.called = @ + 1, !.lastRet = "capacity"]
             ELSE pool' = [pool EXCEPT
                              !.called = @ + 1, !.lastRet = "started",
                              !.jobs[j] = [status |-> "running", startTime |-> now,
                                           endedAt |-> NULL],
                              !.runningContainers = @ \cup {j},
                              !.sandbox[j] = "alive"]
    /\ UNCHANGED <<now, notPool>>

(* job.status = result.success ? 'completed' : (result.timedOut ? 'timeout' : 'failed') *)
poolStatus(result) ==
    IF result = "success" THEN "completed"
    ELSE IF result = "timedOut" THEN "timeout" ELSE "failed"

(* executeCode after the await: the sandbox run is over (a removed         *)
(* container gives a failed result); job.status from the result; finally   *)
(* runningContainers.delete                                                *)
PoolRunReturns(j, result) ==
    /\ pool.sandbox[j] \in {"alive", "killed"}
    /\ pool.sandbox[j] = "killed" => result = "failed"
    /\ pool' = [pool EXCEPT
                   !.jobs[j].status = poolStatus(result),
                   !.jobs[j].endedAt = IF pool.jobs[j].status = "running" THEN now ELSE @,
                   !.runningContainers = @ \ {j},
                   !.sandbox[j] = "none"]
    /\ UNCHANGED <<now, notPool>>

(* stopJob on the jobs map: a running job is marked failed and leaves *)
(* runningContainers; its container is not touched                    *)
stopJob(p, j, t) ==
    IF p.jobs[j].status # "running" THEN p
    ELSE [p EXCEPT !.jobs[j].status = "failed", !.jobs[j].endedAt = t,
                   !.runningContainers = @ \ {j}]

(* stopJob(jobId) returning true *)
PoolStopJob(j) ==
    /\ pool.jobs[j].status = "running"
    /\ pool' = stopJob(pool, j, now)
    /\ UNCHANGED <<now, notPool>>

(* the cleanup interval fires: performCleanup drops job records older than *)
(* one hour that are not running, then calls cleanupAllContainers          *)
SweepStart ==
    /\ pool.cleanupInterval /\ now >= pool.nextSweep
    /\ pool.sweep.pc = "idle"
    /\ pool' = [pool EXCEPT
                   !.nextSweep = @ + SWEEP_INTERVAL_MS,
                   !.sweep = [pc |-> "list", list |-> {}],
                   !.jobs = [j \in PoolJobIds |->
                                IF /\ pool.jobs[j].status \notin {"absent", "running"}
                                   /\ pool.jobs[j].startTime < now - JOB_RECORD_MAX_AGE_MS
                                   THEN [status |-> "absent", startTime |-> 0, endedAt |-> NULL]
                                   ELSE pool.jobs[j]]]
    /\ UNCHANGED <<now, notPool>>

(* DockerService.listRunningContainers: every container named cpp-exec-* *)
listRunningContainers == liveSandboxes

(* DockerService.cleanup(containerId) for each listed container: docker rm -f *)
removeContainers(sb, list) ==
    [j \in PoolJobIds |-> IF j \in list /\ sb[j] = "alive" THEN "killed" ELSE sb[j]]

(* cleanupAllContainers of the sweep: docker ps *)
SweepList ==
    /\ pool.sweep.pc = "list"
    /\ pool' = [pool EXCEPT !.sweep = [pc |-> "remove", list |-> listRunningContainers]]
    /\ UNCHANGED <<now, notPool>>

(* cleanupAllContainers of the sweep: the removals; 'cleanupCompleted' *)
SweepRemove ==
    /\ pool.sweep.pc = "remove"
    /\ pool' = [pool EXCEPT !.sandbox = removeContainers(@, pool.sweep.list),
                            !.sweep = [pc |-> "idle", list |-> {}]]
    /\ UNCHANGED <<now, notPool>>

RECURSIVE stopAll(_, _, _)
(* activeJobs.map(job => this.stopJob(job.id)) *)
stopAll(p, S, t) ==
    IF S = {} THEN p
    ELSE LET j == CHOOSE x \in S : TRUE
         IN stopAll(stopJob(p, j, t), S \ {j}, t)

(* shutdown() up to its first await: clearInterval, stopJob for every *)
(* active job                                                         *)
ShutdownBegin ==
    /\ pool.shut.pc = "none"
    /\ pool' = [stopAll(pool, {j \in PoolJobIds : pool.jobs[j].status = "running"}, now)
                   EXCEPT !.cleanupInterval = FALSE,
                          !.shut = [pc |-> "list", list |-> {}]]
    /\ UNCHANGED <<now, notPool>>

(* cleanupAllContainers of shutdown: docker ps *)
ShutdownList ==
    /\ pool.shut.pc = "list"
    /\ pool' = [pool EXCEPT !.shut = [pc |-> "remove", list |-> listRunningContainers]]
    /\ UNCHANGED <<now, notPool>>

(* cleanupAllContainers of shutdown: the removals; 'shutdown' is emitted *)
ShutdownRemove ==
    /\ pool.shut.pc = "remove"
    /\ pool' = [pool EXCEPT !.sandbox = removeContainers(@, pool.shut.list),
                            !.shut = [pc |-> "done", list |-> {}]]
    /\ UNCHANGED <<now, notPool>>

(* time passes; a due interval callback runs first, and the docker calls *)
(* of a sweep or of shutdown take no time                                *)
PoolTick ==
    /\ now < MaxPoolTicks * PoolTickMs
    /\ pool.cleanupInterval => now < pool.nextSweep
    /\ pool.sweep.pc = "idle"
    /\ pool.shut.pc \in {"none", "done"}
    /\ now' = now + PoolTickMs
    /\ UNCHANGED <<pool, notPool>>

NextPool ==
    \/ PoolExecuteCode
    \/ \E j \in PoolJobIds, r \in ExecutionResults : PoolRunReturns(j, r)
    \/ \E j \in PoolJobIds : PoolStopJob(j)
    \/ SweepStart
    \/ SweepList
    \/ SweepRemove
    \/ ShutdownBegin
    \/ ShutdownList
    \/ ShutdownRemove
    \/ PoolTick

SpecPool == Init /\ [][NextPool]_vars

----------------------------------------------------------------------------
(* JobProcessor: the two supervisor loops.  A run of handleTimeouts or of  *)
(* cleanup is seen here by its outcome only: the promise resolves or       *)
(* rejects.                                                                *)

MaxProcTime == 1260000   \* the clock of a processor run stops here (21 min)

SCAN_INTERVAL_MS == 30000               \* setInterval(..., 30000)
CLEANUP_INTERVAL_MS == 10 * 60 * 1000   \* setInterval(..., 10 * 60 * 1000)

(* every variable but proc and the clock *)
notProc == <<jobs, queue, waitList, bullCounter, calls, canc, sup, faults,
             cancelledQueued, stat, box, pool, collabVars>>

Outcomes == {"resolved", "rejected"}

(* start(): returns at once when already running; else sets the flag and *)
(* arms both intervals.  The run history kept here starts afresh.        *)
Start ==
    /\ proc' = IF proc.isRunning THEN proc
               ELSE [IdleProc EXCEPT !.isRunning = TRUE,
                                     !.timeoutInterval = now + SCAN_INTERVAL_MS,
                                     !.cleanupInterval = now + CLEANUP_INTERVAL_MS,
                                     !.lastScan = now, !.lastCleanup = now,
                                     !.stopping = proc.stopping]
    /\ UNCHANGED <<now, notProc>>

(* the timeout interval's callback when its run rejects and the catch *)
(* block, instead of only logging, gave the interval up               *)
scanCallback_StopsOnError(p, outcome, t) ==
    [p EXCEPT !.timeoutInterval = IF outcome = "rejected" THEN NULL
                                   ELSE p.timeoutInterval + SCAN_INTERVAL_MS,
              !.lastScan = t, !.scanOutcome = outcome,
              !.scanLogged = (outcome = "rejected"),
              !.scanErrAt = IF outcome = "rejected" THEN t ELSE p.scanErrAt]

(* the timeout interval's callback: try { await handleTimeouts() }       *)
(* catch { console.error(...) }; the interval stays armed for its next   *)
(* firing                                                                *)
scanCallback(p, outcome, t) ==
    [p EXCEPT !.timeoutInterval = p.timeoutInterval + SCAN_INTERVAL_MS,
              !.lastScan = t, !.scanOutcome = outcome,
              !.scanLogged = (outcome = "rejected"),
              !.scanErrAt = IF outcome = "rejected" THEN t ELSE p.scanErrAt]

(* the cleanup interval's callback: try { await cleanup() }              *)
(* catch { console.error(...) }                                          *)
cleanupCallback(p, outcome, t) ==
    [p EXCEPT !.cleanupInterval = p.cleanupInterval + CLEANUP_INTERVAL_MS,
              !.lastCleanup = t, !.cleanupOutcome = outcome,
              !.cleanupLogged = (outcome = "rejected"),
              !.cleanupErrAt = IF outcome = "rejected" THEN t ELSE p.cleanupErrAt]

(* the timeout interval fires *)
TimeoutIntervalFires(outcome) ==
    /\ proc.timeoutInterval # NULL
    /\ now >= proc.timeoutInterval
    /\ proc' = scanCallback(proc, outcome, now)
    /\ UNCHANGED <<now, notProc>>

(* the cleanup interval fires *)
CleanupIntervalFires(outcome) ==
    /\ proc.cleanupInterval # NULL
    /\ now >= proc.cleanupInterval
    /\ proc' = cleanupCallback(proc, outcome, now)
    /\ UNCHANGED <<now, notProc>>

(* stop(): returns at once when not running; else clears the flag and both *)
(* intervals, then awaits executionService.shutdown()                      *)
Stop ==
    /\ proc' = IF ~proc.isRunning THEN proc
               ELSE [proc EXCEPT !.isRunning = FALSE,
                                 !.timeoutInterval = NULL,
                                 !.cleanupInterval = NULL,
                                 !.stopping = TRUE]
    /\ UNCHANGED <<now, notProc>>

(* executionService.shutdown() settles: compileQueue.close() resolved or *)
(* rejected; stop() returns or throws, the processor state is the same   *)
StopSettles ==
    /\ proc.stopping
    /\ proc' = [proc EXCEPT !.stopping = FALSE]
    /\ UNCHANGED <<now, notProc>>

(* the instants at which an armed interval fires next *)
procDue == (IF proc.timeoutInterval # NULL THEN {proc.timeoutInterval} ELSE {})
           \cup (IF proc.cleanupInterval # NULL THEN {proc.cleanupInterval} ELSE {})

(* time passes up to the next firing; with no interval armed, by one scan *)
(* period                                                                 *)
ProcTick ==
    /\ now < MaxProcTime
    /\ \A d \in procDue : now < d
    /\ now' = IF procDue = {} THEN now + SCAN_INTERVAL_MS
              ELSE CHOOSE d \in procDue : \A e \in procDue : d <= e
    /\ UNCHANGED <<proc, notProc>>

NextProcessor ==
    \/ Start
    \/ \E o \in Outcomes : TimeoutIntervalFires(o)
    \/ \E o \in Outcomes : CleanupIntervalFires(o)
    \/ Stop
    \/ StopSettles
    \/ ProcTick

SpecProcessor == Init /\ [][NextProcessor]_vars

----------------------------------------------------------------------------
(* ExecutionService.cleanup, one step per await, over a store and a queue *)
(* that have been in use for days                                         *)

NumStored == 2          \* Job Store rows at the start of a cleanup run
CleanupStartDay == 8    \* the day a cleanup run starts on
MaxCleanupDays == 9     \* the clock of a cleanup run stops on this day

DAY_MS == 24 * 60 * 60 * 1000        \* deleteOldJobs: daysOld * 24 * 60 * 60 * 1000
OLD_JOB_DAYS == 7                    \* deleteOldJobs(7)
QUEUE_GRACE_MS == 60 * 60 * 1000     \* compileQueue.clean(60 * 60 * 1000, ...)

StoredId(k) == "uuid-s" \o ToString(k)
StoredKinds == {"queued", "running", "retrying", COMPLETED, FAILED, TIMEOUT, CANCELLED}
StoredDays == {0, 1, 7}   \* the day of the row's latest write

(* a row as the repository's writes leave it: created at t and then       *)
(* untouched, started, started again after a failed attempt, finished, or *)
(* cancelled while Queued                                                 *)
storedRow(kind, t) ==
    LET q == create(<<>>, "j", "user-1", maxExecutionTime, t)
        r == markStarted(q, "j", t)
    IN CASE kind = "queued" -> q["j"]
         [] kind = "running" -> r["j"]
         [] kind = "retrying" -> markStarted(markFailed(r, "j", t), "j", t)["j"]
         [] kind = COMPLETED -> markCompleted(r, "j", t)["j"]
         [] kind = FAILED -> markFailed(r, "j", t)["j"]
         [] kind = TIMEOUT -> markTimeout(r, "j", t)["j"]
         [] kind = CANCELLED -> cancel(q, "j", t)["j"]

(* the queue entry of such a row; a job cancelled while Queued has none *)
storedEntry(kind, id, t) ==
    [jobId |-> id,
     state |-> CASE kind = "queued" -> "waiting"
                 [] kind \in {"running", "retrying"} -> "active"
                 [] kind = FAILED -> "failed"
                 [] OTHER -> "completed",
     attemptsMade |-> CASE kind = "retrying" -> 1
                        [] kind = FAILED -> ATTEMPTS
                        [] OTHER -> 0,
     pc |-> IF kind \in {"running", "retrying"} THEN "exec" ELSE "-",
     result |-> "-",
     finishedOn |-> IF kind \in {COMPLETED, FAILED, TIMEOUT} THEN t ELSE NULL]

InitCleanup ==
    \E kind \in [1..NumStored -> StoredKinds], day \in [1..NumStored -> StoredDays] :
        /\ now = CleanupStartDay * DAY_MS
        /\ jobs = [id \in {StoredId(k) : k \in 1..NumStored} |->
                      LET k == CHOOSE m \in 1..NumStored : StoredId(m) = id
                      IN storedRow(kind[k], day[k] * DAY_MS)]
        /\ queue = [b \in {BullId(k) : k \in {m \in 1..NumStored : kind[m] # CANCELLED}} |->
                       LET k == CHOOSE m \in 1..NumStored : BullId(m) = b
                       IN storedEntry(kind[k], StoredId(k), day[k] * DAY_MS)]
        /\ waitList = SelectSeq([k \in 1..NumStored |-> BullId(k)],
                                LAMBDA b : b \in DOMAIN queue /\ queue[b].state = "waiting")
        /\ bullCounter = NumStored
        /\ calls = [c \in 1..NumSubmissions |-> IdleCall]
        /\ canc = IdleCancel
        /\ sup = IdleSup
        /\ faults = 0
        /\ cancelledQueued = {}
        /\ OthersIdle

(* queue.clean(grace, set): removes the entries of the set that finished *)
(* more than grace ago                                                   *)
clean(q, grace, set, t) ==
    [b \in {x \in DOMAIN q : ~(q[x].state = set /\ q[x].finishedOn < t - grace)} |-> q[b]]

(* CompileJobRepository.deleteOldJobs(daysOld): deleteMany where           *)
(* completedAt < cutoff and status in [COMPLETED, FAILED, TIMEOUT]; a null *)
(* completedAt matches no comparison                                       *)
deleteOldJobs(js, daysOld, t) ==
    LET cutoffDate == t - daysOld * DAY_MS
    IN [id \in {x \in DOMAIN js :
                   ~(/\ js[x].completedAt # NULL
                     /\ js[x].completedAt < cutoffDate
                     /\ js[x].status \in {COMPLETED, FAILED, TIMEOUT})} |-> js[id]]

(* cleanup() is called (by JobProcessor's cleanup interval) *)
CleanupCall ==
    /\ sup.cleanup = "idle"
    /\ sup' = [sup EXCEPT !.cleanup = "completedSet", !.cleanupRet = "none"]
    /\ UNCHANGED <<otherVars, now, jobs, queue, waitList, bullCounter, calls, canc, faults, cancelledQueued>>

(* await compileQueue.clean(60 * 60 * 1000, 'completed') *)
CleanCompletedSet ==
    /\ sup.cleanup = "completedSet"
    /\ queue' = clean(queue, QUEUE_GRACE_MS, "completed", now)
    /\ sup' = [sup EXCEPT !.cleanup = "failedSet"]
    /\ UNCHANGED <<otherVars, now, jobs, waitList, bullCounter, calls, canc, faults, cancelledQueued>>

(* await compileQueue.clean(60 * 60 * 1000, 'failed') *)
CleanFailedSet ==
    /\ sup.cleanup = "failedSet"
    /\ queue' = clean(queue, QUEUE_GRACE_MS, "failed", now)
    /\ sup' = [sup EXCEPT !.cleanup = "rows"]
    /\ UNCHANGED <<otherVars, now, jobs, waitList, bullCounter, calls, canc, faults, cancelledQueued>>

(* await CompileJobRepository.deleteOldJobs(7); cleanup() returns *)
CleanDeleteOldJobs ==
    /\ sup.cleanup = "rows"
    /\ jobs' = deleteOldJobs(jobs, OLD_JOB_DAYS, now)
    /\ sup' = [sup EXCEPT !.cleanup = "idle", !.cleanupRet = "ok"]
    /\ UNCHANGED <<otherVars, now, queue, waitList, bullCounter, calls, canc, faults, cancelledQueued>>

(* the awaited call rejects (Redis or database error): cleanup() throws, *)
(* the calls after it are not made                                       *)
CleanupRejects ==
    /\ sup.cleanup # "idle"
    /\ faults < MaxFaults
    /\ faults' = faults + 1
    /\ sup' = [sup EXCEPT !.cleanup = "idle", !.cleanupRet = "error"]
    /\ UNCHANGED <<otherVars, now, jobs, queue, waitList, bullCounter, calls, canc, cancelledQueued>>

(* a day passes *)
CleanupTick ==
    /\ now < MaxCleanupDays * DAY_MS
    /\ now' = now + DAY_MS
    /\ UNCHANGED <<otherVars, jobs, queue, waitList, bullCounter, calls, canc, sup, faults, cancelledQueued>>

NextCleanup ==
    \/ CleanupCall
    \/ CleanCompletedSet
    \/ CleanFailedSet
    \/ CleanDeleteOldJobs
    \/ CleanupRejects
    \/ CleanupTick

SpecCleanup == InitCleanup /\ [][NextCleanup]_vars

(* The job lifecycle with status polling *)
NextStatus == Next \/ StatusRetrieval

SpecStatus == Init /\ [][NextStatus]_vars

----------------------------------------------------------------------------
(* Properties *)

Instants == {k * TickMs : k \in 0..MaxTicks}

(* the queue entries that carry job j *)
entriesOf(j) == {b \in DOMAIN queue : queue[b].jobId = j}

(* C1: once a job's stored state is Completed, Failed, Timeout or Cancelled, *)
(* no later step of any process changes it.                                  *)
C1_TerminalStateNeverChanges ==
    [][\A j \in DOMAIN jobs :
          jobs[j].status \in Terminal => jobs'[j].status = jobs[j].status]_vars

(* C2: when cancelJob has read a job as Running and races with the worker's *)
(* terminal write for it, the write that lands first decides: the later of  *)
(* the two writes does not overwrite the terminal state already stored.     *)
C2_CancelRaceFirstWriteWins ==
    [][\A j \in DOMAIN jobs :
          /\ (canc.pc = "write" /\ canc.seen = RUNNING /\ canc.jobId = j
                /\ jobs[j].status \in Terminal)
             => jobs'[j].status = jobs[j].status
          /\ (jobs[j].status = CANCELLED
                /\ \E b \in entriesOf(j) : queue[b].state = "active" /\ queue[b].pc = "write")
             => jobs'[j].status = CANCELLED]_vars

(* C3: once cancelJob has returned true for a job it read as Queued, no    *)
(* worker calls markStarted or DockerService.executeCode for that job any  *)
(* more, and the job's state stays Cancelled.                              *)
C3_CancelledQueuedJobNeverRuns ==
    [][\A j \in cancelledQueued :
          /\ jobs'[j].status = CANCELLED
          /\ \A b \in entriesOf(j) :
                (b \in DOMAIN queue' /\ queue'[b].pc = "exec") => queue[b].pc = "exec"]_vars

(* C4: for every user and every rolling 60-second window, at most 5 of the *)
(* user's submissions were accepted (rows persisted by an accepted call,   *)
(* or present before the run).                                             *)
C4_RateLimitLaw ==
    \A u \in Users, t \in Instants :
        Cardinality({j \in DOMAIN jobs :
                        /\ j \in accepted \/ j \notin JobIds
                        /\ jobs[j].userId = u
                        /\ jobs[j].createdAt > t - RATE_WINDOW_MS
                        /\ jobs[j].createdAt <= t}) <= MAX_JOBS_PER_USER_PER_MINUTE

(* C5 as stated: a queueJob call made by a user who has 5 or more jobs      *)
(* created in the preceding 60 s, if it ends at once, ends with the         *)
(* rate-limit error.                                                        *)
C5_OverLimitCallGetsRateLimitError ==
    [][\A c \in Clients :
          (/\ calls[c].pc = "idle" /\ calls'[c].pc = "done"
           /\ recentJobsCount(jobs, calls'[c].userId, now) >= MAX_JOBS_PER_USER_PER_MINUTE)
          => calls'[c].ret = "RateLimited"]_vars

(* C5 amended: when the rate check of a queueJob call (reached only after   *)
(* the queue-size check passed) finds 5 or more jobs of the user created in *)
(* the preceding 60 s, the call ends with the rate-limit error, with no job *)
(* id, and the Job Store and the queue are as they were.                    *)
C5_RateCheckRejectsWithoutEffect ==
    [][\A c \in Clients :
          (/\ QueueJobRate(c)
           /\ recentJobsCount(jobs, calls[c].userId, now) >= MAX_JOBS_PER_USER_PER_MINUTE)
          => /\ calls'[c].pc = "done" /\ calls'[c].ret = "RateLimited"
             /\ calls'[c].jobId = "-"
             /\ jobs' = jobs /\ queue' = queue /\ waitList' = waitList]_vars

(* C5 witness: a call was refused with the rate-limit error *)
C5_Witness ==
    \E c \in Clients : calls[c].pc = "done" /\ calls[c].ret = "RateLimited"

(* C6: the number of waiting plus active queue entries never exceeds 100 *)
C6_QueueNeverAboveMax ==
    getQueueStats.waiting + getQueueStats.active <= MAX_QUEUE_SIZE

(* C7: a finished queueJob call was either accepted, and then its job row  *)
(* and a queue entry for it exist, or refused, and then no job row exists  *)
(* for it.                                                                  *)
C7_AdmissionIsAllOrNothing ==
    \A c \in Clients :
        calls[c].pc = "done" =>
            IF calls[c].ret = "ok"
               THEN calls[c].jobId \in DOMAIN jobs /\ entriesOf(calls[c].jobId) # {}
               ELSE calls[c].jobId \notin DOMAIN jobs

(* C8: every job accepted by queueJob eventually is in a terminal state *)
C8_AcceptedJobEventuallyTerminal ==
    \A n \in 1..NumSubmissions :
        (UUID(n) \in accepted)
            ~> (UUID(n) \in DOMAIN jobs /\ jobs[UUID(n)].status \in Terminal)

(* C9: for every job with both startedAt and completedAt set, *)
(* startedAt <= completedAt.                                   *)
C9_StartedNotAfterCompleted ==
    \A j \in DOMAIN jobs :
        (jobs[j].startedAt # NULL /\ jobs[j].completedAt # NULL)
            => jobs[j].startedAt <= jobs[j].completedAt

(* the cases in which cancelJob is to refuse *)
CancelRefusalCase(j, u) ==
    \/ j \notin DOMAIN jobs
    \/ jobs[j].userId # u
    \/ jobs[j].status \notin {QUEUED, RUNNING}

(* C10: cancelJob for a job that does not exist, that belongs to another    *)
(* user, or that is not Queued or Running returns false, and the Job Store  *)
(* and the queue are as they were.                                          *)
C10_RefusedCancelChangesNothing ==
    [][\A j \in JobIds \cup {MissingJobId}, u \in Users :
          (CancelFind(j, u) /\ CancelRefusalCase(j, u))
          => /\ canc'.pc = "idle" /\ canc'.ret = "false"
             /\ jobs' = jobs /\ queue' = queue /\ waitList' = waitList]_vars

(* C10 witness: cancelJob has returned false while a job of the store is *)
(* in a terminal state and another is absent                              *)
C10_Witness ==
    /\ canc.pc = "idle" /\ canc.ret = "false"
    /\ \E j \in DOMAIN jobs : jobs[j].status \in Terminal

(* the waiting entry that carries job j: its 1-based place in the wait list *)
rank(j) == CHOOSE i \in 1..Len(waitList) : queue[waitList[i]].jobId = j

(* C11: when getJobStatus answers for an accepted job whose row is Queued  *)
(* and whose entry is waiting, the position it returns is the entry's      *)
(* 1-based rank among the waiting entries.                                 *)
C11_QueuedPositionIsRank ==
    [][\A j \in accepted :
          (/\ stat.pc = "queue" /\ stat.jobId = j /\ stat'.ret = "status"
           /\ stat.seen = QUEUED /\ jobs[j].status = QUEUED
           /\ \E i \in 1..Len(waitList) : queue[waitList[i]].jobId = j)
          => stat'.position = rank(j)]_vars

(* the job state processCompileJob stores for a result *)
storedState(r) ==
    terminalWrite(create(<<>>, "j", "u", maxExecutionTime, 0), "j",
                  resultBranch(r), 0)["j"].status

(* C12: a run of a program that never terminates, once launched, returns  *)
(* success = false and timedOut = true, having been killed when           *)
(* wallTimeoutMs expired, and the job is stored as Timeout.               *)
C12_EndlessProgramTimesOut ==
    (box.pc = "done" /\ box.kind = "loop" /\ box.timer # "off" /\ box.code # NULL)
        => /\ ~box.result.success /\ box.result.timedOut
           /\ box.elapsed = box.timeoutMs
           /\ storedState(box.result) = TIMEOUT

(* C13: the exitCode of the result is the exit status of the sandbox       *)
(* command, and a program that compiles and exits with 0 gives success and *)
(* exitCode 0.                                                             *)
C13_ExitCodeIsSandboxExitCode ==
    (box.pc = "done" /\ box.code # NULL)
        => /\ box.result.exitCode = box.code
           /\ (box.kind = "exit0" /\ ~box.timedOut)
                 => (box.result.success /\ box.result.exitCode = 0)

(* C14: when executeCode has returned, the container and the host file of *)
(* the run are gone.                                                      *)
C14_NothingLeftAfterRun ==
    box.pc = "done" => (~box.container /\ ~box.tempFile)

(* C15: the number of sandboxes executing at the same time never exceeds *)
(* maxConcurrentContainers.                                              *)
C15_LiveSandboxesWithinCapacity ==
    Cardinality(liveSandboxes) <= MaxConcurrentContainers

(* C16: once shutdown has begun, no executeCode call starts a run: every *)
(* call made from then on is refused.                                    *)
C16_NoRunStartsAfterShutdown ==
    [][(pool.shut.pc # "none" /\ pool'.called = pool.called + 1)
          => (pool'.lastRet # "started" /\ pool'.sandbox = pool.sandbox)]_vars

C18_ThrownAttemptIsFailedAndRetried ==
    [][\A b \in DOMAIN queue :
          (b \in DOMAIN queue' /\ queue'[b].attemptsMade = queue[b].attemptsMade + 1)
          => /\ jobs'[queue[b].jobId].status = FAILED
             /\ queue'[b].attemptsMade <= ATTEMPTS
             /\ queue'[b].state = (IF queue'[b].attemptsMade < ATTEMPTS
                                     THEN "delayed" ELSE "failed")]_vars

(* C19: while the processor runs (start called, stop not called since),    *)
(* both loops stay armed, the timeout scan has run within the last 30 s    *)
(* and the cleanup within the last 10 min, and a run of either loop that   *)
(* threw was logged                                                        *)
C19_SupervisorLoopsKeepRunning ==
    /\ proc.isRunning =>
          /\ proc.timeoutInterval # NULL /\ proc.cleanupInterval # NULL
          /\ now - proc.lastScan <= SCAN_INTERVAL_MS
          /\ now - proc.lastCleanup <= CLEANUP_INTERVAL_MS
    /\ proc.scanOutcome = "rejected" => proc.scanLogged
    /\ proc.cleanupOutcome = "rejected" => proc.cleanupLogged

(* C19 witness: since start, a scan and a cleanup each threw, and a later *)
(* run of each has resolved                                               *)
C19_Witness ==
    /\ proc.isRunning
    /\ proc.scanErrAt # NULL /\ proc.scanOutcome = "resolved"
    /\ proc.cleanupErrAt # NULL /\ proc.cleanupOutcome = "resolved"

(* C20: a cleanup run that completes deletes every row that is in a       *)
(* terminal state (Completed, Failed, Timeout or Cancelled) and finished  *)
(* more than 7 days ago, and deletes no row that is Queued or Running     *)
C20_CleanupDeletesOldTerminalRows ==
    [][(sup.cleanup = "rows" /\ sup'.cleanupRet = "ok")
          => \A id \in DOMAIN jobs :
                /\ (/\ jobs[id].status \in Terminal
                    /\ jobs[id].completedAt < now - OLD_JOB_DAYS * DAY_MS)
                       => id \notin DOMAIN jobs'
                /\ jobs[id].status \in {QUEUED, RUNNING} => id \in DOMAIN jobs']_vars

(* C21: the timeout stored at admission is at most the configured maximum  *)
(* execution time, and is the default when the caller supplied none (0     *)
(* stands for an absent options.timeout)                                   *)
C21_AdmittedTimeoutIsCapped ==
    [][\A c \in Clients :
          (calls[c].pc = "create" /\ calls'[c].pc = "add")
          => LET row == jobs'[calls'[c].jobId]
             IN /\ row.timeout <= maxExecutionTime
                /\ calls[c].timeout = 0 => row.timeout = maxExecutionTime]_vars

----------------------------------------------------------------------------
----------------------------------------------------------------------------
(* RoomService with RoomRepository, ParticipantRepository and              *)
(* RoomSnapshotRepository, the disconnect handler of the socket server and *)
(* the two maintenance calls; one step per await.  A participant's id is   *)
(* its position in `participants`; lastActivity of a room and lastSeen of  *)
(* a participant are clock readings.                                       *)

(* every variable but rooms, roomCalls and the clock *)
notRooms == <<jobs, queue, waitList, bullCounter, calls, canc, sup, faults,
              cancelledQueued, stat, box, pool, proc, limiter, sync>>

NumKeys == 2            \* keys generateUniqueKey can draw
NumRoomUsers == 2       \* distinct userIds of a rooms run
MaxRoomRequests == 3    \* invocations started in a rooms run
RoomTickMs == 86460000  \* milliseconds per clock advance of a rooms run
MaxRoomTicks == 1       \* clock advances of a rooms run

MAX_KEY_ATTEMPTS == 10
INACTIVE_MINUTES == 30
ARCHIVE_HOURS == 24

RoomCallers == DOMAIN roomCalls
Keys == 1..NumKeys
RoomUsers == {"user-" \o ToString(n) : n \in 1..NumRoomUsers}
RoomId(n) == "room-" \o ToString(n)

(* the C++ template createRoom stores, as a text of one symbol *)
Template == <<"#">>
(* bodies of PUT /rooms/{roomId}: content, and yjsState or none *)
PutContents == {<<"p">>}
PutStates == {NoYjs, Bytes({[client |-> 9, clock |-> 0, origin |-> <<0, 0>>,
                              rightOrigin |-> <<0, 0>>, content |-> <<"p">>]})}

(* prisma.room.findUnique({ where: { key } }): the ids of the rooms with that key *)
roomsWithKey(db, k) == {r \in DOMAIN db.rows : db.rows[r].key = k}

(* prisma.participant.findFirst({ where: { roomId, userId } }): the id of  *)
(* the oldest matching participant, 0 for null                             *)
findByRoomAndUser(db, r, u) ==
    LET hits == {i \in DOMAIN db.participants :
                    db.participants[i].roomId = r /\ db.participants[i].userId = u}
    IN IF hits = {} THEN 0 ELSE CHOOSE i \in hits : \A j \in hits : i <= j

(* a call returns (or throws) `ret` and its caller is free again *)
roomReturn(ret) == [IdleRoomCall EXCEPT !.ret = ret]

(* a caller invokes one of the operations *)
roomInvoke(c, call) ==
    /\ roomCalls[c].pc = "idle"
    /\ rooms.started < MaxRoomRequests
    /\ roomCalls' = [roomCalls EXCEPT ![c] = call]
    /\ rooms' = [rooms EXCEPT !.started = @ + 1]
    /\ UNCHANGED <<now, notRooms>>

(* POST /rooms -> RoomService.createRoom -> RoomRepository.create *)
CreateRoomCall(c) ==
    roomInvoke(c, [IdleRoomCall EXCEPT !.op = "create", !.pc = "generateUniqueKey"])

(* one pass of generateUniqueKey's loop: draw a key, findUnique, return it *)
(* when free, else attempts++; after the tenth taken key the loop ends and *)
(* the function throws, which create rethrows through handleDatabaseError  *)
(* and createRoom as 'Failed to create room'                               *)
GenerateUniqueKey_UsesTenthKey(c) ==
    /\ roomCalls[c].pc = "generateUniqueKey"
    /\ \E k \in Keys :
          roomCalls' = [roomCalls EXCEPT ![c] =
              IF roomsWithKey(rooms, k) = {}
              THEN [@ EXCEPT !.pc = "room.create", !.key = k]
              ELSE IF @.attempts + 1 < MAX_KEY_ATTEMPTS
                   THEN [@ EXCEPT !.attempts = @ + 1]
                   ELSE [@ EXCEPT !.pc = "room.create", !.key = k]]
    /\ UNCHANGED <<now, rooms, notRooms>>

GenerateUniqueKey(c) ==
    /\ roomCalls[c].pc = "generateUniqueKey"
    /\ \E k \in Keys :
          roomCalls' = [roomCalls EXCEPT ![c] =
              IF roomsWithKey(rooms, k) = {}
              THEN [@ EXCEPT !.pc = "room.create", !.key = k]
              ELSE IF @.attempts + 1 < MAX_KEY_ATTEMPTS
                   THEN [@ EXCEPT !.attempts = @ + 1]
                   ELSE [roomReturn("Failed to create room")
                            EXCEPT !.attempts = MAX_KEY_ATTEMPTS]]
    /\ UNCHANGED <<now, rooms, notRooms>>

(* prisma.room.create: the unique index on key refuses a key taken since   *)
(* the findUnique; otherwise the row is stored with the schema's defaults  *)
RoomCreate(c) ==
    /\ roomCalls[c].pc = "room.create"
    /\ LET id == RoomId(Cardinality(DOMAIN rooms.rows) + 1)
       IN IF roomsWithKey(rooms, roomCalls[c].key) # {}
          THEN /\ roomCalls' = [roomCalls EXCEPT ![c] = roomReturn("Failed to create room")]
               /\ UNCHANGED rooms
          ELSE /\ rooms' = [rooms EXCEPT !.rows = @ @@ (id :>
                              [key |-> roomCalls[c].key, codeSnapshot |-> Template,
                               yjsState |-> NoYjs, isArchived |-> FALSE,
                               participantCount |-> 0, lastActivity |-> now])]
               /\ roomCalls' = [roomCalls EXCEPT ![c].pc = "createAutoSnapshot",
                                                 ![c].roomId = id,
                                                 ![c].content = Template]
    /\ UNCHANGED <<now, notRooms>>

(* RoomSnapshotRepository.createAutoSnapshot, the last await of createRoom *)
(* and of updateRoomSnapshot                                               *)
CreateAutoSnapshot(c) ==
    /\ roomCalls[c].pc = "createAutoSnapshot"
    /\ rooms' = [rooms EXCEPT !.snapshots = Append(@,
                    [roomId |-> roomCalls[c].roomId, content |-> roomCalls[c].content,
                     yjsState |-> roomCalls[c].yjsState, snapshotType |-> "AUTO"])]
    /\ roomCalls' = [roomCalls EXCEPT ![c] =
                        roomReturn(IF @.op = "create" THEN "created" ELSE "updated")]
    /\ UNCHANGED <<now, notRooms>>

(* POST /rooms/join -> RoomService.joinRoom(roomKey, userId) *)
JoinRoomCall(c) ==
    \E k \in Keys, u \in RoomUsers :
        roomInvoke(c, [IdleRoomCall EXCEPT !.op = "join", !.pc = "findByKey",
                                           !.key = k, !.userId = u])

(* joinRoom up to its first write: findByKey and the two refusals *)
JoinFindByKey(c) ==
    /\ roomCalls[c].pc = "findByKey"
    /\ LET found == roomsWithKey(rooms, roomCalls[c].key)
       IN roomCalls' = [roomCalls EXCEPT ![c] =
              IF found = {} THEN roomReturn("Room not found")
              ELSE LET r == CHOOSE r \in found : TRUE
                   IN IF rooms.rows[r].isArchived
                      THEN roomReturn("Room is archived and no longer available")
                      ELSE [@ EXCEPT !.pc = "markActive", !.roomId = r]]
    /\ UNCHANGED <<now, rooms, notRooms>>

(* the findByRoomAndUser that opens markActive, markInactive and           *)
(* updatePresence; the last two return null when nothing is found          *)
ParticipantFind(c) ==
    /\ roomCalls[c].pc \in {"markActive", "markInactive", "updatePresence"}
    /\ LET found == findByRoomAndUser(rooms, roomCalls[c].roomId, roomCalls[c].userId)
       IN roomCalls' = [roomCalls EXCEPT ![c] =
              IF found = 0 /\ @.pc = "markInactive"
              THEN [@ EXCEPT !.pc = "decrementParticipantCount"]
              ELSE IF found = 0 /\ @.pc = "updatePresence"
              THEN roomReturn("disconnected")
              ELSE [@ EXCEPT !.pc = @ \o ".write", !.existing = found]]
    /\ UNCHANGED <<now, rooms, notRooms>>

(* markActive's write: update the participant found, or create one *)
MarkActiveWrite(c) ==
    /\ roomCalls[c].pc = "markActive.write"
    /\ rooms' = [rooms EXCEPT !.participants =
                    IF roomCalls[c].existing # 0
                    THEN [@ EXCEPT ![roomCalls[c].existing].isActive = TRUE,
                                   ![roomCalls[c].existing].lastSeen = now]
                    ELSE Append(@, [roomId |-> roomCalls[c].roomId,
                                    userId |-> roomCalls[c].userId,
                                    isActive |-> TRUE, lastSeen |-> now])]
    /\ roomCalls' = [roomCalls EXCEPT ![c].pc = "countNewParticipant"]
    /\ UNCHANGED <<now, notRooms>>

(* joinRoom after markActive: findByRoomAndUser, and                       *)
(* incrementParticipantCount when it finds nobody                          *)
JoinCountNewParticipant(c) ==
    /\ roomCalls[c].pc = "countNewParticipant"
    /\ LET existingParticipant ==
               findByRoomAndUser(rooms, roomCalls[c].roomId, roomCalls[c].userId)
       IN rooms' = IF existingParticipant = 0
                   THEN [rooms EXCEPT !.rows[roomCalls[c].roomId].participantCount = @ + 1,
                                      !.rows[roomCalls[c].roomId].lastActivity = now]
                   ELSE rooms
    /\ roomCalls' = [roomCalls EXCEPT ![c].pc = "findById"]
    /\ UNCHANGED <<now, notRooms>>

(* joinRoom's two closing reads, findById and findLatestByRoom *)
JoinReturn(c) ==
    /\ roomCalls[c].pc = "findById"
    /\ roomCalls' = [roomCalls EXCEPT ![c] = roomReturn("joined")]
    /\ UNCHANGED <<now, rooms, notRooms>>

(* POST /rooms/leave -> RoomService.leaveRoom(roomId, userId) *)
LeaveRoomCall(c) ==
    \E r \in DOMAIN rooms.rows, u \in RoomUsers :
        roomInvoke(c, [IdleRoomCall EXCEPT !.op = "leave", !.pc = "markInactive",
                                           !.roomId = r, !.userId = u])

(* the write of markInactive and of updatePresence(roomId, userId, false) *)
MarkInactiveWrite(c) ==
    /\ roomCalls[c].pc \in {"markInactive.write", "updatePresence.write"}
    /\ rooms' = [rooms EXCEPT !.participants[roomCalls[c].existing].isActive = FALSE,
                              !.participants[roomCalls[c].existing].lastSeen = now]
    /\ roomCalls' = [roomCalls EXCEPT ![c] =
                        IF @.pc = "markInactive.write"
                        THEN [@ EXCEPT !.pc = "decrementParticipantCount"]
                        ELSE roomReturn("disconnected")]
    /\ UNCHANGED <<now, notRooms>>

(* leaveRoom: RoomRepository.decrementParticipantCount *)
LeaveDecrement(c) ==
    /\ roomCalls[c].pc = "decrementParticipantCount"
    /\ rooms' = [rooms EXCEPT !.rows[roomCalls[c].roomId].participantCount = @ - 1,
                              !.rows[roomCalls[c].roomId].lastActivity = now]
    /\ roomCalls' = [roomCalls EXCEPT ![c].pc = "update"]
    /\ UNCHANGED <<now, notRooms>>

(* leaveRoom: RoomRepository.update(roomId, { lastActivity }) *)
LeaveUpdate(c) ==
    /\ roomCalls[c].pc = "update"
    /\ rooms' = [rooms EXCEPT !.rows[roomCalls[c].roomId].lastActivity = now]
    /\ roomCalls' = [roomCalls EXCEPT ![c] = roomReturn("left")]
    /\ UNCHANGED <<now, notRooms>>

(* the socket's 'disconnect' handler: updatePresence(roomId, userId, false) *)
(* with the socket.data its 'join-room' event stored                        *)
DisconnectCall(c) ==
    \E r \in DOMAIN rooms.rows, u \in RoomUsers :
        roomInvoke(c, [IdleRoomCall EXCEPT !.op = "disconnect", !.pc = "updatePresence",
                                           !.roomId = r, !.userId = u])

(* PUT /rooms/{roomId} -> RoomService.updateRoomSnapshot *)
UpdateRoomSnapshotCall(c) ==
    \E r \in DOMAIN rooms.rows, content \in PutContents, yjsState \in PutStates :
        roomInvoke(c, [IdleRoomCall EXCEPT !.op = "updateRoomSnapshot",
                                           !.pc = "updateCodeSnapshot", !.roomId = r,
                                           !.content = content, !.yjsState = yjsState])

(* RoomRepository.updateCodeSnapshot: an undefined yjsState leaves the     *)
(* column as it is                                                         *)
UpdateCodeSnapshot(c) ==
    /\ roomCalls[c].pc = "updateCodeSnapshot"
    /\ rooms' = [rooms EXCEPT !.rows[roomCalls[c].roomId] =
                    [@ EXCEPT !.codeSnapshot = roomCalls[c].content,
                              !.yjsState = IF roomCalls[c].yjsState.present
                                           THEN roomCalls[c].yjsState ELSE @,
                              !.lastActivity = now]]
    /\ roomCalls' = [roomCalls EXCEPT ![c].pc = "createAutoSnapshot"]
    /\ UNCHANGED <<now, notRooms>>

(* ParticipantRepository.cleanupInactive(30): one updateMany *)
cleanupInactive(ps, minutesInactive, t) ==
    [i \in DOMAIN ps |->
        IF ps[i].lastSeen < t - minutesInactive * 60 * 1000 /\ ps[i].isActive
        THEN [ps[i] EXCEPT !.isActive = FALSE]
        ELSE ps[i]]

CleanupInactiveParticipants ==
    /\ rooms.participants # <<>>
    /\ rooms' = [rooms EXCEPT !.participants = cleanupInactive(@, INACTIVE_MINUTES, now)]
    /\ UNCHANGED <<now, roomCalls, notRooms>>

(* RoomService.archiveInactiveRooms(24): a backup snapshot of every room   *)
(* findInactiveRooms returns that has a codeSnapshot, then archive         *)
findInactiveRooms(db, hoursInactive, t) ==
    {r \in DOMAIN db.rows :
        /\ db.rows[r].lastActivity < t - hoursInactive * 60 * 60 * 1000
        /\ ~db.rows[r].isArchived}

RECURSIVE backupSnapshots(_, _, _)
backupSnapshots(db, rs, snaps) ==
    IF rs = {} THEN snaps
    ELSE LET r == CHOOSE r \in rs : \A q \in rs : db.rows[r].lastActivity <= db.rows[q].lastActivity
         IN backupSnapshots(db, rs \ {r},
                IF db.rows[r].codeSnapshot # <<>>
                THEN Append(snaps, [roomId |-> r, content |-> db.rows[r].codeSnapshot,
                                    yjsState |-> db.rows[r].yjsState,
                                    snapshotType |-> "BACKUP"])
                ELSE snaps)

ArchiveInactiveRooms ==
    LET inactiveRooms == findInactiveRooms(rooms, ARCHIVE_HOURS, now)
    IN /\ inactiveRooms # {}
       /\ rooms' = [rooms EXCEPT
              !.rows = [r \in DOMAIN @ |-> IF r \in inactiveRooms
                                            THEN [@[r] EXCEPT !.isArchived = TRUE]
                                            ELSE @[r]],
              !.snapshots = backupSnapshots(rooms, inactiveRooms, @)]
       /\ UNCHANGED <<now, roomCalls, notRooms>>

RoomTick ==
    /\ now < MaxRoomTicks * RoomTickMs
    /\ now' = now + RoomTickMs
    /\ UNCHANGED <<rooms, roomCalls, notRooms>>

NextRooms ==
    \/ \E c \in RoomCallers :
          \/ CreateRoomCall(c) \/ GenerateUniqueKey(c) \/ RoomCreate(c)
          \/ CreateAutoSnapshot(c)
          \/ JoinRoomCall(c) \/ JoinFindByKey(c) \/ ParticipantFind(c)
          \/ MarkActiveWrite(c) \/ JoinCountNewParticipant(c) \/ JoinReturn(c)
          \/ LeaveRoomCall(c) \/ MarkInactiveWrite(c) \/ LeaveDecrement(c)
          \/ LeaveUpdate(c)
          \/ DisconnectCall(c)
          \/ UpdateRoomSnapshotCall(c) \/ UpdateCodeSnapshot(c)
    \/ CleanupInactiveParticipants
    \/ ArchiveInactiveRooms
    \/ RoomTick

SpecRooms == Init /\ [][NextRooms]_vars

(* the participants of room r with isActive = true *)
activeParticipants(db, r) ==
    {i \in DOMAIN db.participants :
        db.participants[i].roomId = r /\ db.participants[i].isActive}

(* no RoomService or presence call is in flight *)
RoomsQuiescent == \A c \in RoomCallers : roomCalls[c].pc = "idle"

(* C22: whenever no call is in flight, every room's participantCount is    *)
(* the number of its participants with isActive = true, and is not         *)
(* negative                                                                *)
C22_ParticipantCountIsActiveCount ==
    RoomsQuiescent =>
        \A r \in DOMAIN rooms.rows :
            /\ rooms.rows[r].participantCount = Cardinality(activeParticipants(rooms, r))
            /\ rooms.rows[r].participantCount >= 0

(* C23: a join or a snapshot update that is served while its room is       *)
(* archived fails at once and leaves rooms, participants and snapshots as  *)
(* they were                                                               *)
C23_ArchivedRoomRejectsJoinAndUpdate ==
    [][\A c \in RoomCallers :
          LET call == roomCalls[c]
              target == IF call.pc = "findByKey" THEN roomsWithKey(rooms, call.key)
                        ELSE {call.roomId}
          IN (/\ call.pc \in {"findByKey", "updateCodeSnapshot"}
              /\ roomCalls'[c] # call
              /\ \E r \in target : rooms.rows[r].isArchived)
             => /\ rooms' = rooms
                /\ roomCalls'[c].pc = "idle"
                /\ roomCalls'[c].ret \notin {"joined", "updated"}]_vars

(* C24: no two participant rows have the same roomId and userId *)
C24_OneParticipantPerRoomAndUser ==
    \A i, j \in DOMAIN rooms.participants :
        (/\ rooms.participants[i].roomId = rooms.participants[j].roomId
         /\ rooms.participants[i].userId = rooms.participants[j].userId) => i = j

(* C25: the tenth attempt of generateUniqueKey either returns a key that   *)
(* no room has or, being the tenth collision, ends the creation with       *)
(* 'Failed to create room' and leaves rooms and snapshots as they were     *)
C25_ExhaustedKeyAttemptsPersistNothing ==
    [][\A c \in RoomCallers :
          (/\ roomCalls[c].pc = "generateUniqueKey"
           /\ roomCalls[c].attempts = MAX_KEY_ATTEMPTS - 1
           /\ roomCalls'[c] # roomCalls[c])
          => \/ /\ roomCalls'[c].pc = "room.create"
                /\ roomsWithKey(rooms, roomCalls'[c].key) = {}
             \/ /\ roomCalls'[c].pc = "idle"
                /\ roomCalls'[c].ret = "Failed to create room"
                /\ rooms' = rooms]_vars

(* a creation has failed after ten collisions while every other creation   *)
(* started has stored its room                                             *)
C25_Witness ==
    \E c \in RoomCallers :
        /\ roomCalls[c].ret = "Failed to create room"
        /\ roomCalls[c].attempts = MAX_KEY_ATTEMPTS
        /\ Cardinality(DOMAIN rooms.rows) = rooms.started - 1
        /\ Len(rooms.snapshots) = rooms.started - 1

----------------------------------------------------------------------------
----------------------------------------------------------------------------
(* rate-limiter.ts: the module-level rateLimitStore, keyed by client       *)
(* address, and the two limiters of the room routes.  checkRateLimit has   *)
(* no await, so a call is one step.  `log` keeps the requests accepted.    *)

(* every variable but limiter and the clock *)
notLimiter == <<jobs, queue, waitList, bullCounter, calls, canc, sup, faults,
                cancelledQueued, stat, box, pool, proc, rooms, roomCalls, sync>>

NumAddresses == 2         \* client addresses
MaxLimiterRequests == 7   \* checkRateLimit calls of a limiter run
LimiterTickMs == 60000    \* milliseconds per clock advance of a limiter run
MaxLimiterTicks == 2      \* clock advances of a limiter run

roomCreationLimiter == [windowMs |-> 15 * 60 * 1000, maxRequests |-> 5]
roomJoinLimiter == [windowMs |-> 60 * 1000, maxRequests |-> 20]

Addresses == {"10.0.0." \o ToString(n) : n \in 1..NumAddresses}

(* RateLimiter.cleanup(windowStart): delete the entries that expired a     *)
(* whole window ago                                                        *)
cleanup(store, windowStart) ==
    [key \in {k \in DOMAIN store : ~(store[k].resetTime <= windowStart)} |-> store[key]]

(* RateLimiter.checkRateLimit under `config` for address `key` at time t:  *)
(* the store afterwards and whether the call returned (true) or threw      *)
(* RateLimitError (false)                                                  *)
checkRateLimit(store, config, key, t) ==
    LET cleaned == cleanup(store, t - config.windowMs)
    IN IF key \notin DOMAIN cleaned \/ cleaned[key].resetTime <= t
       THEN [store |-> [k \in DOMAIN cleaned \cup {key} |->
                          IF k = key THEN [count |-> 1, resetTime |-> t + config.windowMs]
                          ELSE cleaned[k]],
             accepted |-> TRUE]
       ELSE IF cleaned[key].count >= config.maxRequests
       THEN [store |-> cleaned, accepted |-> FALSE]
       ELSE [store |-> [cleaned EXCEPT ![key].count = @ + 1], accepted |-> TRUE]

(* a request reaches a route that starts with limiter.checkRateLimit *)
limitedRequest(kind, config, key) ==
    LET outcome == checkRateLimit(limiter.store, config, key, now)
    IN /\ Len(limiter.log) < MaxLimiterRequests
       /\ limiter' = [store |-> outcome.store,
                      log |-> Append(limiter.log,
                                 [kind |-> kind, key |-> key, at |-> now,
                                  accepted |-> outcome.accepted])]
       /\ UNCHANGED <<now, notLimiter>>

(* POST /rooms: roomCreationLimiter.checkRateLimit(request) *)
CreateRouteCheck == \E key \in Addresses : limitedRequest("create", roomCreationLimiter, key)

(* POST /rooms/join: roomJoinLimiter.checkRateLimit(request) *)
JoinRouteCheck == \E key \in Addresses : limitedRequest("join", roomJoinLimiter, key)

LimiterTick ==
    /\ now < MaxLimiterTicks * LimiterTickMs
    /\ now' = now + LimiterTickMs
    /\ UNCHANGED <<limiter, notLimiter>>

NextLimiter == CreateRouteCheck \/ JoinRouteCheck \/ LimiterTick

SpecLimiter == Init /\ [][NextLimiter]_vars

(* the requests of `kind` from `key` accepted at a time in [from, from + windowMs) *)
acceptedIn(kind, key, from, windowMs) ==
    {i \in DOMAIN limiter.log :
        /\ limiter.log[i].kind = kind /\ limiter.log[i].key = key
        /\ limiter.log[i].accepted
        /\ from <= limiter.log[i].at /\ limiter.log[i].at < from + windowMs}

(* C26: for every address and every window that starts at an accepted      *)
(* request, at most 5 room creations are accepted within 15 minutes and at *)
(* most 20 joins within 1 minute                                           *)
C26_AcceptedRequestsPerWindow ==
    \A i \in DOMAIN limiter.log :
        LET key == limiter.log[i].key
            from == limiter.log[i].at
        IN /\ Cardinality(acceptedIn("create", key, from, roomCreationLimiter.windowMs))
                <= roomCreationLimiter.maxRequests
           /\ Cardinality(acceptedIn("join", key, from, roomJoinLimiter.windowMs))
                <= roomJoinLimiter.maxRequests

----------------------------------------------------------------------------
----------------------------------------------------------------------------
(* Yjs, as far as SyncService uses it.  A document is the sequence of its  *)
(* integrated items in document order plus the items it holds back because *)
(* something they refer to is missing.  An item is one insertion: the      *)
(* client that made it, that client's clock, the ids of the items it was   *)
(* typed between (origin, rightOrigin) and the text typed.  An update is   *)
(* an encoded set of items.                                                *)

(* client ids start at 1, so no item has this id *)
NoOrigin == <<0, 0>>

itemId(it) == <<it.client, it.clock>>

ids(items) == {itemId(items[i]) : i \in DOMAIN items}

(* the clock a document expects next from client c *)
nextClock(items, c) == Cardinality({i \in DOMAIN items : items[i].client = c})

(* position of the item with this id, 0 for none *)
indexOf(items, id) ==
    IF id \in ids(items) THEN CHOOSE i \in DOMAIN items : itemId(items[i]) = id ELSE 0

(* Item.integrate: starting right of its origin at position p, the item    *)
(* passes the conflicting items that go before it (same origin and a       *)
(* smaller client id, or typed after an item already passed) and stops at  *)
(* its rightOrigin; the result is the position it is inserted after        *)
RECURSIVE integratePosition(_, _, _, _)
integratePosition(items, it, p, q) ==
    IF q > Len(items) \/ itemId(items[q]) = it.rightOrigin THEN q - 1
    ELSE LET o == indexOf(items, items[q].origin)
         IN IF (o = p /\ items[q].client < it.client) \/ o > p
            THEN integratePosition(items, it, p, q + 1)
            ELSE q - 1

integrate(items, it) ==
    LET p == indexOf(items, it.origin)
        at == integratePosition(items, it, p, p + 1)
    IN SubSeq(items, 1, at) \o <<it>> \o SubSeq(items, at + 1, Len(items))

(* the items of `todo` that can be integrated now: next in their client's  *)
(* clock and both origins present                                          *)
ready(items, todo) ==
    {it \in todo :
        /\ it.clock = nextClock(items, it.client)
        /\ it.origin = NoOrigin \/ it.origin \in ids(items)
        /\ it.rightOrigin = NoOrigin \/ it.rightOrigin \in ids(items)}

(* Y.applyUpdate(doc, update): integrate what can be integrated, drop what *)
(* the document already has, keep the rest pending                         *)
RECURSIVE integrateAll(_, _)
integrateAll(items, todo) ==
    LET fresh == {it \in todo : it.clock >= nextClock(items, it.client)}
        rdy == ready(items, fresh)
    IN IF rdy = {} THEN [items |-> items, pending |-> fresh]
       ELSE LET it == CHOOSE x \in rdy :
                          \A y \in rdy : x.client < y.client
                                           \/ (x.client = y.client /\ x.clock <= y.clock)
            IN integrateAll(integrate(items, it), fresh \ {it})

applyUpdate(doc, update) ==
    LET merged == integrateAll(doc.items, doc.pending \cup update.items)
    IN [doc EXCEPT !.items = merged.items, !.pending = merged.pending]

(* Y.encodeStateVector(doc): per client the next clock expected *)
encodeStateVector(doc) ==
    [c \in {doc.items[i].client : i \in DOMAIN doc.items} |-> nextClock(doc.items, c)]

(* the state vector of a document that has nothing *)
EmptyStateVector == <<>>

(* Y.encodeStateAsUpdate(doc, stateVector): the integrated items the state *)
(* vector does not cover, and the pending ones                             *)
encodeStateAsUpdate(doc, stateVector) ==
    Bytes({doc.items[i] : i \in {j \in DOMAIN doc.items :
                \/ doc.items[j].client \notin DOMAIN stateVector
                \/ doc.items[j].clock >= stateVector[doc.items[j].client]}}
          \cup doc.pending)

(* ydoc.getText('code').toString() *)
RECURSIVE concat(_)
concat(items) ==
    IF items = <<>> THEN <<>> ELSE Head(items).content \o concat(Tail(items))

toString(doc) == concat(doc.items)

(* ytext.insert(index, content) on a document, by the document's own client *)
insert(doc, index, content) ==
    LET it == [client |-> doc.client, clock |-> nextClock(doc.items, doc.client),
               origin |-> IF index = 0 THEN NoOrigin ELSE itemId(doc.items[index]),
               rightOrigin |-> IF index < Len(doc.items) THEN itemId(doc.items[index + 1])
                               ELSE NoOrigin,
               content |-> content]
    IN [doc EXCEPT !.items = integrate(@, it)]

(* the item `insert` has just created *)
lastInserted(doc) ==
    doc.items[indexOf(doc.items, <<doc.client, nextClock(doc.items, doc.client) - 1>>)]

----------------------------------------------------------------------------
----------------------------------------------------------------------------
(* SyncService for one room.  `docs` holds every Y.Doc the service has     *)
(* created, a document's handle being its position; yjsDocuments maps the  *)
(* room to a handle.  A socket event is handled in steps that end at the   *)
(* database reads of restoreDocumentFromDatabase; what follows the last    *)
(* read runs without interruption.  The read inside                        *)
(* validateDocumentIntegrity only feeds warnings and is not a step.        *)
(* Updates come from clients that type at the end of their own document;   *)
(* origin 'critical' is left out.                                          *)

(* every variable but sync and rooms *)
notSync == <<now, jobs, queue, waitList, bullCounter, calls, canc, sup, faults,
             cancelledQueued, stat, box, pool, proc, roomCalls, limiter>>

MaxDocs == 3           \* Y.Doc objects the service creates in a sync run
MaxSyncSnapshots == 2  \* room_snapshots rows of a sync run

SERVER_CLIENT_BASE == 10   \* clientID of the service's n-th Y.Doc is 10 + n
SNAPSHOT_KEEP == 20        \* createSnapshot: deleteOldSnapshots(roomId, 20)

Sockets == DOMAIN sync.sockets
(* what each client types *)
Letters == <<"a", "b", "c">>
SyncRoom == RoomId(1)

(* the database once createRoom has returned for the first room *)
RoomCreated ==
    [rows |-> (SyncRoom :> [key |-> 1, codeSnapshot |-> Template, yjsState |-> NoYjs,
                            isArchived |-> FALSE, participantCount |-> 0,
                            lastActivity |-> 0]),
     participants |-> <<>>,
     snapshots |-> <<[roomId |-> SyncRoom, content |-> Template, yjsState |-> NoYjs,
                      snapshotType |-> "AUTO"]>>,
     started |-> 1]

InitSync ==
    /\ now = 0
    /\ jobs = <<>>
    /\ queue = <<>>
    /\ waitList = <<>>
    /\ bullCounter = 0
    /\ calls = [c \in 1..NumSubmissions |-> IdleCall]
    /\ canc = IdleCancel
    /\ sup = IdleSup
    /\ faults = 0
    /\ cancelledQueued = {}
    /\ stat = IdleStat
    /\ box = IdleBox
    /\ pool = IdlePool
    /\ proc = IdleProc
    /\ rooms = RoomCreated
    /\ roomCalls = IdleRoomCalls
    /\ limiter = IdleLimiter
    /\ sync = IdleSync

(* RoomSnapshotRepository.findLatestByRoom: position of the newest         *)
(* snapshot of the room, 0 for null                                        *)
findLatestByRoom(db, r) ==
    LET of == {i \in DOMAIN db.snapshots : db.snapshots[i].roomId = r}
    IN IF of = {} THEN 0 ELSE CHOOSE i \in of : \A j \in of : j <= i

(* validateDocumentIntegrity: encode the document against its own state    *)
(* vector, apply that to a new document, compare the two texts             *)
validateDocumentIntegrity(ydoc) ==
    LET stateVector == encodeStateVector(ydoc)
        update == encodeStateAsUpdate(ydoc, stateVector)
        testDoc == applyUpdate(newDoc(0), update)
    IN [isValid |-> toString(ydoc) = toString(testDoc)]

(* restoreFromLatestSnapshot(ydoc, roomId) *)
restoreFromLatestSnapshot(db, ydoc, r) ==
    LET latest == findLatestByRoom(db, r)
    IN IF latest # 0
       THEN IF db.snapshots[latest].yjsState.present
            THEN applyUpdate(ydoc, db.snapshots[latest].yjsState)
            ELSE IF db.snapshots[latest].content # <<>>
            THEN insert(ydoc, 0, db.snapshots[latest].content)
            ELSE ydoc
       ELSE IF r \in DOMAIN db.rows /\ db.rows[r].codeSnapshot # <<>>
            THEN insert(ydoc, 0, db.rows[r].codeSnapshot)
            ELSE ydoc

(* the service's n-th new Y.Doc(): no observer yet; operationCount is the  *)
(* counter of the observer initializeYjsDocument will attach, `updates`    *)
(* the number of times that observer has run and `thresholdSnapshots` the  *)
(* number of createSnapshot calls it has made                              *)
serverDoc(n) ==
    [client |-> SERVER_CLIENT_BASE + n, items |-> <<>>, pending |-> {},
     observed |-> FALSE, destroyed |-> FALSE, restored |-> <<>>,
     operationCount |-> 0, updates |-> 0, thresholdSnapshots |-> 0]

(* throttledPersistSnapshot, called by the update observer of document h:  *)
(* skipped while one is pending, else a setTimeout that will persist the   *)
(* content and update captured now                                         *)
throttledPersistSnapshot(sy, h, r, content, yjsState) ==
    IF r \in DOMAIN sy.pendingSnapshots /\ sy.pendingSnapshots[r]
    THEN sy
    ELSE [sy EXCEPT !.pendingSnapshots = (r :> TRUE) @@ @,
                    !.timeouts = Append(@, [roomId |-> r, content |-> content,
                                            yjsState |-> yjsState, doc |-> h])]

(* the end of initializeYjsDocument: the update observer, the snapshot     *)
(* interval and yjsDocuments.set; `restored` keeps the text the document   *)
(* had at that moment                                                      *)
install(sy, h, ydoc) ==
    [sy EXCEPT !.docs[h] = [ydoc EXCEPT !.observed = TRUE, !.restored = toString(ydoc)],
               !.snapshotTimers = @ \cup {SyncRoom},
               !.yjsDocuments = (SyncRoom :> h) @@ @]

(* the update observer of document h, which has become ydoc:               *)
(* throttledPersistSnapshot, then createSnapshot is called with the text   *)
(* and the whole state when operationCount has reached the threshold       *)
observer(sy, h, ydoc, update) ==
    LET throttled == throttledPersistSnapshot(sy, h, SyncRoom, toString(ydoc), update)
    IN IF ydoc.operationCount + 1 >= sy.config.snapshotThreshold
       THEN [throttled EXCEPT !.snapshotWrites =
               Append(@, [doc |-> h, content |-> toString(ydoc),
                          yjsState |-> encodeStateAsUpdate(ydoc, EmptyStateVector)])]
       ELSE throttled

(* operationCount++ of the observer, and what the observer has done so far *)
counted(sy, ydoc) ==
    [ydoc EXCEPT !.operationCount = @ + 1,
                 !.updates = @ + 1,
                 !.thresholdSnapshots =
                     IF ydoc.operationCount + 1 >= sy.config.snapshotThreshold
                     THEN @ + 1 ELSE @]

(* isValidUpdate without the test of the length *)
isValidUpdate_AcceptsAll(update) == TRUE

(* isValidUpdate: an update of length 0 (new Uint8Array of a missing       *)
(* update) is refused; every encoded update applies to a new Y.Doc         *)
isValidUpdate(update) == update.present

(* the handler has emitted an event to its own socket and returned *)
replied(event, code, state) ==
    [IdleSocket EXCEPT !.reply = [event |-> event, code |-> code, state |-> state]]

(* resolveConflict up to its first await: the document of the map, its     *)
(* text and its whole state go to createSnapshot as a BACKUP               *)
resolveConflict(sy, s) ==
    LET ydoc == sy.yjsDocuments[SyncRoom]
    IN [sy EXCEPT !.sockets[s].pc = "resolveConflict.createSnapshot",
                  !.sockets[s].doc = ydoc,
                  !.sockets[s].captured =
                      [content |-> toString(sy.docs[ydoc]),
                       yjsState |-> encodeStateAsUpdate(sy.docs[ydoc], EmptyStateVector)]]

(* the handler once initializeYjsDocument has returned document h:         *)
(* 'yjs-sync-request' sends the whole state, which the client applies;     *)
(* 'yjs-update' applies the client's update, which runs the update         *)
(* observer when the document changed, and validates the document          *)
served(sy, s, h) ==
    IF sy.sockets[s].event = "yjs-sync-request"
    THEN [sy EXCEPT !.sockets[s] = IdleSocket,
                    !.replicas[s] = applyUpdate(@, encodeStateAsUpdate(sy.docs[h],
                                                                       EmptyStateVector))]
    ELSE IF ~isValidUpdate(sy.sockets[s].update)
    THEN [sy EXCEPT !.sockets[s] = replied("yjs-error", "INVALID_UPDATE", NoYjs)]
    ELSE IF sy.sockets[s].throws
    THEN resolveConflict(sy, s)
    ELSE LET changed == applyUpdate(sy.docs[h], sy.sockets[s].update)
             fires == changed.observed /\ changed.items # sy.docs[h].items
             observed == IF fires
                         THEN observer(sy, h, changed, sy.sockets[s].update)
                         ELSE sy
             ydoc == IF fires THEN counted(sy, changed) ELSE changed
         IN [observed EXCEPT
                !.docs[h] = ydoc,
                !.applied = Append(@, sy.sockets[s].update),
                !.emitted = Append(@, [from |-> s, to |-> DOMAIN sy.sockets \ {s},
                                       update |-> sy.sockets[s].update]),
                !.sockets[s] = [IdleSocket EXCEPT !.validation =
                                   IF validateDocumentIntegrity(ydoc).isValid
                                   THEN "valid" ELSE "invalid"]]

(* initializeYjsDocument up to its first await: the document of the map,   *)
(* or a new Y.Doc that is not in the map yet                               *)
initializeYjsDocument(sy, s) ==
    IF SyncRoom \in DOMAIN sy.yjsDocuments
    THEN served(sy, s, sy.yjsDocuments[SyncRoom])
    ELSE LET h == Len(sy.docs) + 1
         IN [sy EXCEPT !.docs = Append(@, serverDoc(h)),
                       !.sockets[s].pc = "restoreDocumentFromDatabase",
                       !.sockets[s].doc = h]

(* a socket event arrives and its handler calls initializeYjsDocument *)
received(s, sy) ==
    /\ sync.sockets[s].pc = "idle"
    /\ SyncRoom \in DOMAIN sync.yjsDocuments \/ Len(sync.docs) < MaxDocs
    /\ sync' = initializeYjsDocument(sy, s)
    /\ UNCHANGED <<rooms, notSync>>

(* socket.on('yjs-sync-request') *)
YjsSyncRequest(s) ==
    received(s, [sync EXCEPT !.sockets[s].event = "yjs-sync-request"])

(* socket.on('yjs-update'): the client has typed its letter at the end of  *)
(* its document and sends that insertion                                   *)
YjsUpdate(s) ==
    LET typed == insert(sync.replicas[s], Len(sync.replicas[s].items), <<Letters[s]>>)
    IN /\ sync.typed < sync.budget
       /\ received(s, [sync EXCEPT !.sockets[s].event = "yjs-update",
                                   !.sockets[s].update = Bytes({lastInserted(typed)}),
                                   !.replicas[s] = typed,
                                   !.typed = @ + 1])

(* restoreDocumentFromDatabase after findById: apply the room's yjsState   *)
(* and validate; a valid document is installed and the handler goes on,    *)
(* otherwise restoreFromLatestSnapshot is awaited on the same document     *)
RestoreDocumentFromDatabase(s) ==
    LET h == sync.sockets[s].doc
        room == rooms.rows[SyncRoom]
        ydoc == applyUpdate(sync.docs[h], room.yjsState)
    IN /\ sync.sockets[s].pc = "restoreDocumentFromDatabase"
       /\ sync' =
             IF room.yjsState.present /\ validateDocumentIntegrity(ydoc).isValid
             THEN served(install(sync, h, ydoc), s, h)
             ELSE [sync EXCEPT !.docs[h] = IF room.yjsState.present THEN ydoc ELSE @,
                               !.sockets[s].pc = "restoreFromLatestSnapshot",
                               !.sockets[s].room = [yjsState |-> room.yjsState,
                                                    codeSnapshot |-> room.codeSnapshot]]
       /\ UNCHANGED <<rooms, notSync>>

(* restoreFromLatestSnapshot after its read, then the end of               *)
(* initializeYjsDocument and the rest of the handler                       *)
RestoreFromLatestSnapshot(s) ==
    LET h == sync.sockets[s].doc
    IN /\ sync.sockets[s].pc = "restoreFromLatestSnapshot"
       /\ sync' = served(install(sync, h,
                                 restoreFromLatestSnapshot(rooms, sync.docs[h], SyncRoom)),
                         s, h)
       /\ UNCHANGED <<rooms, notSync>>

(* persistSnapshot -> RoomRepository.updateSnapshot: content, the yjsState *)
(* when one is given, lastActivity                                         *)
persistSnapshot(db, r, content, yjsState) ==
    [db EXCEPT !.rows[r] = [@ EXCEPT !.codeSnapshot = content,
                                     !.yjsState = IF yjsState.present THEN yjsState ELSE @,
                                     !.lastActivity = now]]

(* RoomSnapshotRepository.deleteOldSnapshots: all rows of the room but its *)
(* keepCount newest are deleted                                            *)
deleteOldSnapshots(snapshots, r, keepCount) ==
    LET ofRoom == {i \in DOMAIN snapshots : snapshots[i].roomId = r}
        snapshotsToDelete ==
            {i \in ofRoom : Cardinality({j \in ofRoom : j > i}) >= keepCount}
        kept == DOMAIN snapshots \ snapshotsToDelete
        nth(k) == CHOOSE i \in kept : Cardinality({j \in kept : j < i}) = k - 1
    IN [k \in 1..Cardinality(kept) |-> snapshots[nth(k)]]

(* SyncService.createSnapshot: a row of the given type, then               *)
(* deleteOldSnapshots(roomId, 20)                                          *)
createSnapshot(db, r, content, yjsState, type) ==
    [db EXCEPT !.snapshots =
        deleteOldSnapshots(Append(@, [roomId |-> r, content |-> content,
                                      yjsState |-> yjsState, snapshotType |-> type]),
                           r, SNAPSHOT_KEEP)]

(* the setTimeout of throttledPersistSnapshot fires: persistSnapshot ->    *)
(* RoomRepository.updateSnapshot with the captured content and update,     *)
(* then pendingSnapshots.set(roomId, false)                                *)
ThrottleTimeoutFires ==
    /\ sync.timeouts # <<>>
    /\ LET t == Head(sync.timeouts)
       IN /\ rooms' = persistSnapshot(rooms, t.roomId, t.content, t.yjsState)
          /\ sync' = [sync EXCEPT !.timeouts = Tail(@),
                                  !.pendingSnapshots = (t.roomId :> FALSE) @@ @]
    /\ UNCHANGED notSync

(* the interval of setupAutoSnapshot fires: an AUTO snapshot of the        *)
(* document in the map, with its whole state, when it has content          *)
AutoSnapshotFires ==
    /\ SyncRoom \in sync.snapshotTimers
    /\ SyncRoom \in DOMAIN sync.yjsDocuments
    /\ Len(rooms.snapshots) < MaxSyncSnapshots
    /\ LET ydoc == sync.docs[sync.yjsDocuments[SyncRoom]]
       IN /\ toString(ydoc) # <<>>
          /\ rooms' = createSnapshot(rooms, SyncRoom, toString(ydoc),
                                      encodeStateAsUpdate(ydoc, EmptyStateVector), "AUTO")
    /\ UNCHANGED <<sync, notSync>>

(* cleanupRoom(roomId) *)
CleanupRoom ==
    /\ SyncRoom \in DOMAIN sync.yjsDocuments
    /\ sync' = [sync EXCEPT
          !.snapshotTimers = @ \ {SyncRoom},
          !.pendingSnapshots = [r \in DOMAIN @ \ {SyncRoom} |-> @[r]],
          !.docs[sync.yjsDocuments[SyncRoom]] = [@ EXCEPT !.destroyed = TRUE,
                                                          !.observed = FALSE],
          !.yjsDocuments = [r \in DOMAIN @ \ {SyncRoom} |-> @[r]]]
    /\ UNCHANGED <<rooms, notSync>>

(* the createSnapshot an update observer awaits returns: the AUTO snapshot *)
(* is written with what the observer passed, and operationCount = 0        *)
ThresholdSnapshotWritten ==
    \E i \in DOMAIN sync.snapshotWrites :
       LET w == sync.snapshotWrites[i]
       IN /\ rooms' = createSnapshot(rooms, SyncRoom, w.content, w.yjsState, "AUTO")
          /\ sync' = [sync EXCEPT
                !.snapshotWrites = SubSeq(@, 1, i - 1) \o SubSeq(@, i + 1, Len(@)),
                !.docs[w.doc].operationCount = 0]
          /\ UNCHANGED notSync

(* socket.on('yjs-update') with an update of length 0 *)
YjsUpdateInvalid(s) ==
    received(s, [sync EXCEPT !.sockets[s].event = "yjs-update",
                             !.sockets[s].update = NoYjs])

(* socket.on('yjs-update') where Y.applyUpdate on the room's document      *)
(* throws: the handler calls resolveConflict                               *)
YjsUpdateThrows(s) ==
    LET typed == insert(sync.replicas[s], Len(sync.replicas[s].items), <<Letters[s]>>)
    IN /\ sync.typed < sync.budget
       /\ received(s, [sync EXCEPT !.sockets[s].event = "yjs-update",
                                   !.sockets[s].update = Bytes({lastInserted(typed)}),
                                   !.sockets[s].throws = TRUE,
                                   !.replicas[s] = typed,
                                   !.typed = @ + 1])

(* resolveConflict once the BACKUP snapshot is written: a new Y.Doc takes  *)
(* the state of the old document and then the failed update.  When that    *)
(* applies, the new document replaces the old one in the map, the old one  *)
(* is destroyed and persistSnapshot is awaited; when it throws,            *)
(* restoreFromLatestSnapshot(newDoc, roomId) is awaited                    *)
ResolveConflictMerge(s) ==
    LET ydoc == sync.sockets[s].doc
        n == Len(sync.docs) + 1
        current == applyUpdate(serverDoc(n),
                               encodeStateAsUpdate(sync.docs[ydoc], EmptyStateVector))
        merged == applyUpdate(current, sync.sockets[s].update)
    IN /\ sync.sockets[s].pc = "resolveConflict.createSnapshot"
       /\ Len(sync.docs) < MaxDocs
       /\ rooms' = createSnapshot(rooms, SyncRoom, sync.sockets[s].captured.content,
                                   sync.sockets[s].captured.yjsState, "BACKUP")
       /\ \E mergeError \in BOOLEAN :
             sync' =
                IF mergeError
                THEN [sync EXCEPT
                        !.docs = Append(@, current),
                        !.sockets[s].pc = "resolveConflict.restoreFromLatestSnapshot",
                        !.sockets[s].doc = n]
                ELSE [sync EXCEPT
                        !.docs = Append([@ EXCEPT ![ydoc].destroyed = TRUE,
                                                  ![ydoc].observed = FALSE], merged),
                        !.yjsDocuments = (SyncRoom :> n) @@ @,
                        !.sockets[s].pc = "resolveConflict.persistSnapshot",
                        !.sockets[s].doc = n,
                        !.sockets[s].captured =
                            [content |-> toString(merged),
                             yjsState |-> encodeStateAsUpdate(merged, EmptyStateVector)]]
       /\ UNCHANGED notSync

(* resolveConflict once persistSnapshot has written the merged state:      *)
(* 'yjs-conflict-resolved' to the sender, then newDoc.destroy()            *)
ResolveConflictPersisted(s) ==
    /\ sync.sockets[s].pc = "resolveConflict.persistSnapshot"
    /\ rooms' = persistSnapshot(rooms, SyncRoom, sync.sockets[s].captured.content,
                                sync.sockets[s].captured.yjsState)
    /\ sync' = [sync EXCEPT
          !.docs[sync.sockets[s].doc] = [@ EXCEPT !.destroyed = TRUE, !.observed = FALSE],
          !.sockets[s] = replied("yjs-conflict-resolved", "-",
                                 sync.sockets[s].captured.yjsState)]
    /\ UNCHANGED notSync

(* resolveConflict once restoreFromLatestSnapshot(newDoc, roomId) has      *)
(* returned: 'yjs-error' to the sender, then newDoc.destroy()              *)
ResolveConflictRestored(s) ==
    /\ sync.sockets[s].pc = "resolveConflict.restoreFromLatestSnapshot"
    /\ sync' = [sync EXCEPT
          !.docs[sync.sockets[s].doc] =
              [restoreFromLatestSnapshot(rooms, @, SyncRoom) EXCEPT !.destroyed = TRUE],
          !.sockets[s] = replied("yjs-error", "CONFLICT_RESOLUTION_FAILED", NoYjs)]
    /\ UNCHANGED <<rooms, notSync>>

NextSync ==
    \/ \E s \in Sockets :
          \/ YjsSyncRequest(s) \/ YjsUpdate(s)
          \/ RestoreDocumentFromDatabase(s) \/ RestoreFromLatestSnapshot(s)
    \/ ThrottleTimeoutFires
    \/ AutoSnapshotFires
    \/ CleanupRoom

SpecSync == InitSync /\ [][NextSync]_vars

(* the updates of a room and the latest-state writes they cause *)
NextThrottle ==
    \/ \E s \in Sockets :
          \/ YjsSyncRequest(s) \/ YjsUpdate(s)
          \/ RestoreDocumentFromDatabase(s) \/ RestoreFromLatestSnapshot(s)
    \/ ThrottleTimeoutFires

(* a timeout that is set fires *)
SpecThrottle == InitSync /\ [][NextThrottle]_vars /\ WF_vars(ThrottleTimeoutFires)

MaxManualSnapshots == 2   \* createManualSnapshot calls of a snapshot run

(* SyncService.createManualSnapshot(roomId): a MANUAL snapshot of the      *)
(* document in the map, through createSnapshot                             *)
CreateManualSnapshot ==
    /\ SyncRoom \in DOMAIN sync.yjsDocuments
    /\ Cardinality({i \in DOMAIN rooms.snapshots :
                       rooms.snapshots[i].snapshotType = "MANUAL"}) < MaxManualSnapshots
    /\ LET ydoc == sync.docs[sync.yjsDocuments[SyncRoom]]
       IN rooms' = createSnapshot(rooms, SyncRoom, toString(ydoc),
                                  encodeStateAsUpdate(ydoc, EmptyStateVector), "MANUAL")
    /\ UNCHANGED <<sync, notSync>>

(* the database once createRoom and then SNAPSHOT_KEEP - 1 calls of        *)
(* updateRoomSnapshot(roomId, "p") have returned for the first room        *)
RoomUpdated ==
    [RoomCreated EXCEPT
        !.rows[SyncRoom].codeSnapshot = <<"p">>,
        !.snapshots = @ \o [i \in 1..(SNAPSHOT_KEEP - 1) |->
                               [roomId |-> SyncRoom, content |-> <<"p">>,
                                yjsState |-> NoYjs, snapshotType |-> "AUTO"]],
        !.started = 0]

InitSnapshots ==
    /\ now = 0
    /\ jobs = <<>>
    /\ queue = <<>>
    /\ waitList = <<>>
    /\ bullCounter = 0
    /\ calls = [c \in 1..NumSubmissions |-> IdleCall]
    /\ canc = IdleCancel
    /\ sup = IdleSup
    /\ faults = 0
    /\ cancelledQueued = {}
    /\ stat = IdleStat
    /\ box = IdleBox
    /\ pool = IdlePool
    /\ proc = IdleProc
    /\ rooms = RoomUpdated
    /\ roomCalls = IdleRoomCalls
    /\ limiter = IdleLimiter
    /\ sync = IdleSync

(* the operations that write snapshots of a room that is open in the       *)
(* service: PUT /rooms/{roomId} and the service's own snapshots            *)
NextSnapshots ==
    \/ \E c \in RoomCallers :
          \/ UpdateRoomSnapshotCall(c) \/ UpdateCodeSnapshot(c) \/ CreateAutoSnapshot(c)
    \/ \E s \in Sockets :
          \/ YjsSyncRequest(s)
          \/ RestoreDocumentFromDatabase(s) \/ RestoreFromLatestSnapshot(s)
    \/ CreateManualSnapshot

SpecSnapshots == InitSnapshots /\ [][NextSnapshots]_vars

SnapshotThreshold == 2   \* config.snapshotThreshold of a threshold run
MaxThresholdEdits == 3   \* insertions typed by all clients in a threshold run

(* the service of a room whose documents are initialized with a            *)
(* snapshotThreshold of SnapshotThreshold                                  *)
InitThreshold ==
    /\ now = 0
    /\ jobs = <<>>
    /\ queue = <<>>
    /\ waitList = <<>>
    /\ bullCounter = 0
    /\ calls = [c \in 1..NumSubmissions |-> IdleCall]
    /\ canc = IdleCancel
    /\ sup = IdleSup
    /\ faults = 0
    /\ cancelledQueued = {}
    /\ stat = IdleStat
    /\ box = IdleBox
    /\ pool = IdlePool
    /\ proc = IdleProc
    /\ rooms = RoomCreated
    /\ roomCalls = IdleRoomCalls
    /\ limiter = IdleLimiter
    /\ sync = [IdleSync EXCEPT !.config.snapshotThreshold = SnapshotThreshold,
                               !.budget = MaxThresholdEdits]

NextThreshold ==
    \/ \E s \in Sockets :
          \/ YjsSyncRequest(s) \/ YjsUpdate(s)
          \/ RestoreDocumentFromDatabase(s) \/ RestoreFromLatestSnapshot(s)
    \/ ThrottleTimeoutFires
    \/ ThresholdSnapshotWritten

SpecThreshold == InitThreshold /\ [][NextThreshold]_vars

(* the 'yjs-update' handler with every branch it has: updates that are     *)
(* refused, that apply, and that throw and go through resolveConflict      *)
NextConflict ==
    \/ \E s \in Sockets :
          \/ YjsSyncRequest(s) \/ YjsUpdate(s)
          \/ YjsUpdateInvalid(s) \/ YjsUpdateThrows(s)
          \/ RestoreDocumentFromDatabase(s) \/ RestoreFromLatestSnapshot(s)
          \/ ResolveConflictMerge(s)
          \/ ResolveConflictPersisted(s) \/ ResolveConflictRestored(s)
    \/ ThrottleTimeoutFires

SpecConflict == InitSync /\ [][NextConflict]_vars

(* C27: every document that initializeYjsDocument has installed and        *)
(* cleanupRoom has not destroyed is the one yjsDocuments holds for the     *)
(* room, and no document that is not holds an insertion of a client        *)
C27_OneDocumentPerRoom ==
    \A h \in DOMAIN sync.docs :
        LET current == SyncRoom \in DOMAIN sync.yjsDocuments
                       /\ sync.yjsDocuments[SyncRoom] = h
        IN /\ sync.docs[h].observed => current
           /\ (~current /\ ~sync.docs[h].destroyed) =>
                 \A i \in DOMAIN sync.docs[h].items : sync.docs[h].items[i].client \notin Sockets

(* C28: validateDocumentIntegrity has found every document valid that it   *)
(* was given after a client's update                                       *)
C28_ValidationAcceptsEveryDocument ==
    \A s \in Sockets : sync.sockets[s].validation # "invalid"

(* socket s is in the step that ends initializeYjsDocument *)
installs(s) ==
    /\ sync.sockets[s].pc \in {"restoreDocumentFromDatabase", "restoreFromLatestSnapshot"}
    /\ sync'.docs[sync.sockets[s].doc].observed
    /\ ~sync.docs[sync.sockets[s].doc].observed

(* the room row restoreDocumentFromDatabase has read or is reading *)
roomRead(s) ==
    IF sync.sockets[s].pc = "restoreDocumentFromDatabase"
    THEN [yjsState |-> rooms.rows[SyncRoom].yjsState,
          codeSnapshot |-> rooms.rows[SyncRoom].codeSnapshot]
    ELSE sync.sockets[s].room

(* C29: a document restored for a room whose state was persisted has the   *)
(* text that was persisted with that state: the codeSnapshot written with  *)
(* the room's yjsState, or the content of the latest snapshot that has a   *)
(* yjsState                                                                *)
C29_RestoredTextIsPersistedText ==
    [][\A s \in Sockets :
          LET latest == findLatestByRoom(rooms, SyncRoom)
              persisted ==
                  (IF roomRead(s).yjsState.present THEN {roomRead(s).codeSnapshot} ELSE {})
                  \cup (IF latest # 0 /\ rooms.snapshots[latest].yjsState.present
                        THEN {rooms.snapshots[latest].content} ELSE {})
          IN (installs(s) /\ persisted # {})
             => sync'.docs[sync.sockets[s].doc].restored \in persisted]_vars

(* C30: the text of a restored document is the text of one source alone:   *)
(* of the room's yjsState when that passed validation, else of what        *)
(* restoreFromLatestSnapshot gives an empty document                       *)
C30_RestoredFromOneSource ==
    [][\A s \in Sockets :
          installs(s) =>
             sync'.docs[sync.sockets[s].doc].restored =
                IF sync.sockets[s].pc = "restoreDocumentFromDatabase"
                THEN toString(applyUpdate(newDoc(0), rooms.rows[SyncRoom].yjsState))
                ELSE toString(restoreFromLatestSnapshot(rooms, newDoc(0), SyncRoom))]_vars

(* the items a document holds, integrated or pending *)
held(ydoc) == {ydoc.items[i] : i \in DOMAIN ydoc.items} \cup ydoc.pending

(* socket s leaves the 'yjs-update' handler without an applied update:     *)
(* the update is refused, or Y.applyUpdate throws                          *)
notApplied(s) ==
    \/ /\ sync'.sockets[s].reply.code = "INVALID_UPDATE"
       /\ sync'.sockets[s] # sync.sockets[s]
    \/ /\ sync'.sockets[s].pc = "resolveConflict.createSnapshot"
       /\ sync.sockets[s].pc # "resolveConflict.createSnapshot"

(* C31: the broadcasts of a room are the applied updates in the order in   *)
(* which they were applied; each goes to every connection but its sender   *)
(* and none is an update of length 0; when one is emitted the room's       *)
(* document holds its items; a handler that refuses its update or fails to *)
(* apply it emits none                                                     *)
C31_BroadcastFollowsApply ==
    [][/\ [i \in DOMAIN sync'.emitted |-> sync'.emitted[i].update] = sync'.applied
       /\ \A i \in DOMAIN sync'.emitted :
             /\ sync'.emitted[i].to = Sockets \ {sync'.emitted[i].from}
             /\ sync'.emitted[i].update.present
       /\ sync'.emitted # sync.emitted =>
             /\ Len(sync'.emitted) = Len(sync.emitted) + 1
             /\ SubSeq(sync'.emitted, 1, Len(sync.emitted)) = sync.emitted
             /\ SyncRoom \in DOMAIN sync'.yjsDocuments
             /\ sync'.emitted[Len(sync'.emitted)].update.items
                   \subseteq held(sync'.docs[sync'.yjsDocuments[SyncRoom]])
       /\ \A s \in Sockets : notApplied(s) => sync'.emitted = sync.emitted]_vars

(* two clients' updates were applied and broadcast, one update was refused *)
(* or one failed to apply                                                  *)
C31_Witness ==
    /\ Len(sync.emitted) >= 1
    /\ \E s \in Sockets : sync.sockets[s].reply.code = "INVALID_UPDATE"
    /\ \E s \in Sockets : sync.sockets[s].reply.event = "yjs-conflict-resolved"

(* socket s is in the step that ends a resolveConflict whose merge applied *)
resolved(s) ==
    /\ sync.sockets[s].pc = "resolveConflict.persistSnapshot"
    /\ sync'.sockets[s].pc = "idle"

(* C32: when resolveConflict has merged and returns, the document the map  *)
(* holds for the room is not destroyed and holds the merged state, the     *)
(* room row holds the merged text and state, and the sender has got        *)
(* 'yjs-conflict-resolved' with that state                                 *)
C32_ResolvedDocumentIsLive ==
    [][\A s \in Sockets :
          resolved(s) =>
             LET merged == sync.sockets[s].captured
             IN /\ SyncRoom \in DOMAIN sync'.yjsDocuments
                /\ ~sync'.docs[sync'.yjsDocuments[SyncRoom]].destroyed
                /\ merged.yjsState.items
                      \subseteq held(sync'.docs[sync'.yjsDocuments[SyncRoom]])
                /\ rooms'.rows[SyncRoom].codeSnapshot = merged.content
                /\ rooms'.rows[SyncRoom].yjsState = merged.yjsState
                /\ sync'.sockets[s].reply.event = "yjs-conflict-resolved"
                /\ sync'.sockets[s].reply.state = merged.yjsState]_vars

(* socket s is in the step that ends a resolveConflict whose merge threw *)
mergeFailed(s) ==
    /\ sync.sockets[s].pc = "resolveConflict.restoreFromLatestSnapshot"
    /\ sync'.sockets[s].pc = "idle"

(* C33: when the merge of resolveConflict has thrown and resolveConflict   *)
(* returns, the text of the document the map holds for the room is the     *)
(* content of the room's latest snapshot and the sender has been told that *)
(* the resolution failed                                                   *)
C33_FailedMergeRestoresSnapshot ==
    [][\A s \in Sockets :
          mergeFailed(s) =>
             /\ SyncRoom \in DOMAIN sync'.yjsDocuments
             /\ toString(sync'.docs[sync'.yjsDocuments[SyncRoom]]) =
                   rooms'.snapshots[findLatestByRoom(rooms', SyncRoom)].content
             /\ sync'.sockets[s].reply.code = "CONFLICT_RESOLUTION_FAILED"]_vars

(* C34: whenever no createSnapshot of a document's observer is in flight,  *)
(* the updates the observer has seen are those of its snapshots, one       *)
(* snapshot for each full threshold, plus the ones the counter holds, and  *)
(* the counter is below the threshold                                      *)
C34_OneSnapshotPerThreshold ==
    \A h \in DOMAIN sync.docs :
        (\A i \in DOMAIN sync.snapshotWrites : sync.snapshotWrites[i].doc # h) =>
           /\ sync.docs[h].updates =
                 sync.config.snapshotThreshold * sync.docs[h].thresholdSnapshots
                    + sync.docs[h].operationCount
           /\ sync.docs[h].operationCount < sync.config.snapshotThreshold

(* the snapshots the database holds of room r *)
snapshotsOf(db, r) == {i \in DOMAIN db.snapshots : db.snapshots[i].roomId = r}

(* C35: a step that writes a snapshot of a room, which ends the operation  *)
(* that writes it, leaves the room with at most 20 snapshots               *)
C35_AtMostTwentySnapshots ==
    [][rooms'.snapshots # rooms.snapshots =>
          Cardinality(snapshotsOf(rooms', SyncRoom)) <= SNAPSHOT_KEEP]_vars

(* C36: once cleanupRoom has run for a room, the room has no interval, no  *)
(* pending flag and no document in the map, its document is destroyed, and *)
(* no timeout that the observer of a destroyed document has set writes the *)
(* room's latest state                                                     *)
C36_NoWriteAfterCleanup ==
    [][/\ (SyncRoom \in DOMAIN sync.yjsDocuments /\ SyncRoom \notin DOMAIN sync'.yjsDocuments)
          => /\ sync'.docs[sync.yjsDocuments[SyncRoom]].destroyed
             /\ SyncRoom \notin sync'.snapshotTimers
             /\ SyncRoom \notin DOMAIN sync'.pendingSnapshots
       /\ Len(sync'.timeouts) < Len(sync.timeouts)
          => ~sync.docs[Head(sync.timeouts).doc].destroyed]_vars

(* C37: handleTimeouts marks a job only while it is Running and overdue    *)
(* and changes no other row; when it has dealt with a job no queue entry   *)
(* of that job is left, and no other entry is removed or changed           *)
C37_HandleTimeoutsFrame ==
    [][/\ (sup.pc = "mark" /\ sup'.pc = "remove") =>
             /\ Head(sup.todo) \in overdue(jobs, now)
             /\ jobs'[Head(sup.todo)].status = TIMEOUT
             /\ \A id \in DOMAIN jobs \ {Head(sup.todo)} : jobs'[id] = jobs[id]
       /\ (sup.pc = "remove" /\ sup'.pc # "remove") =>
             /\ \A b \in DOMAIN queue' : queue'[b].jobId # Head(sup.todo)
             /\ \A b \in DOMAIN queue :
                   queue[b].jobId # Head(sup.todo) => (b \in DOMAIN queue' /\ queue'[b] = queue[b])
             /\ jobs' = jobs]_vars

(* C38: the removals of a sweep take no sandbox whose job is running: a    *)
(* sandbox that a sweep kills belongs to a job that has ended or that the  *)
(* manager no longer knows                                                 *)
C38_SweepSparesRunningJobs ==
    [][(pool.sweep.pc = "remove" /\ pool'.sweep.pc = "idle") =>
          \A j \in PoolJobIds :
              (pool.sandbox[j] = "alive" /\ pool'.sandbox[j] = "killed")
                 => pool.jobs[j].status # "running"]_vars

(* the limit a route of `kind` checks *)
limitOf(kind) == IF kind = "create" THEN roomCreationLimiter ELSE roomJoinLimiter

(* C39: a request is refused only when its own kind has used up the limit: *)
(* a room creation only after 5 accepted creations from the address within *)
(* the last 15 minutes, a join only after 20 accepted joins from it within *)
(* the last minute                                                         *)
C39_LimitsCountedIndependently ==
    \A i \in DOMAIN limiter.log :
        LET request == limiter.log[i]
            config == limitOf(request.kind)
        IN ~request.accepted =>
              Cardinality(acceptedIn(request.kind, request.key,
                                     request.at - config.windowMs + 1, config.windowMs))
                 >= config.maxRequests

(* the clients have typed all they type, an update has been applied and   *)
(* no handler is awaiting anything: the room's document stays in the map,  *)
(* so no later handler awaits either                                       *)
updatesStopped ==
    /\ sync.typed = sync.budget
    /\ sync.applied # <<>>
    /\ \A s \in Sockets : sync.sockets[s].pc = "idle"

(* no latest-state write is outstanding and the room row holds the text of *)
(* a document of the room that takes updates                               *)
latestStatePersisted ==
    /\ sync.timeouts = <<>>
    /\ \E h \in DOMAIN sync.docs :
          /\ sync.docs[h].observed
          /\ rooms.rows[SyncRoom].codeSnapshot = toString(sync.docs[h])

(* C40: once the updates of a room have stopped, the room row eventually   *)
(* holds the final text of the room's document                             *)
C40_FinalContentEventuallyPersisted ==
    updatesStopped ~> latestStatePersisted

====
